---- MODULE Spec2Model ----
(***************************************************************************)
(* A model of the IDE bridge (ClaudeIdeBridge.ts) and of the stream-json   *)
(* line decoder (stream-json-parser.ts) of EnsoAI.                         *)
(*                                                                         *)
(* Text is a sequence of one-character strings.  The escape character      *)
(* U+001B and the C1 introducer U+009B have no TLA+ literal and are the    *)
(* tokens ESC and CSI.                                                     *)
(***************************************************************************)
EXTENDS Integers, Sequences, FiniteSets, TLC

VARIABLES
  \* ---- StreamJsonParser and the stream fed to it
  stream,         \* the whole text the subprocess writes
  fed,            \* how many characters of it have been passed to parse()
  buffer,         \* StreamJsonParser.buffer
  events,         \* the events returned by the parse() calls so far, in order
  resetAt,        \* not read by the parser: how much had been fed and returned
                  \* when reset() was last called
  \* ---- one bridge instance (the closure of startClaudeIdeBridge)
  authToken,      \* the instance token
  currentClient,  \* the active peer, NoClient for null
  initialized,    \* the flag of the handler made by createJsonRpcHandler
  conn,           \* per connection: transport state and what was sent on it
  last,           \* the latest event handled and what the code did with it
  \* ---- the module-level singleton, every instance started, and the files
  bridgeInstance, \* the recorded instance, NoInstance for null
  instances,      \* per startClaudeIdeBridge call: the state of its closure
  lockFiles,      \* per port: the file <port>.lock of the ide directory
  peers,          \* per client socket: its state and the instance it reached
  platform,       \* process.platform
  call,           \* the latest call of the module's interface and how it ended
  \* ---- useCodeReview (its parser is buffer above)
  review,         \* content, status, error, cost and model of useState
  ptyIdRef,       \* ptyIdRef.current, NoPty for null
  cleanupFns,     \* the runs whose listeners cleanupFnsRef.current holds
  runs,           \* per startReview call: its pty and the status it captured
  stopped,        \* not read by the hook: stopReview was called and neither
                  \* startReview nor reset since
  step,           \* the latest call of the hook or pty event
  \* ---- useXterm: one terminal and its pty
  terminalState,  \* "none" before initTerminal, "ready" once the pty is
                  \* created and the listeners are registered, "disposed"
                  \* after the unmount cleanup
  writeBuffer,    \* writeBufferRef.current
  isFlushPending, \* isFlushPendingRef.current
  flushTimers,    \* how many 30 ms timers of the data listener are pending
  exitTimers,     \* how many 50 ms timers of the exit listener are pending
  ptyExited,      \* the exit event of the pty has been delivered
  received,       \* not read by the hook: the data of the data events so far
  written,        \* not read by the hook: what terminal.write was given so far
  passed,         \* not read by the hook: what onData was given so far
  exitCalls,      \* not read by the hook: how often onExit was called
  xstep           \* the latest event of the terminal and what it wrote

parserVars == <<stream, fed, buffer, events, resetAt>>
bridgeVars == <<authToken, currentClient, initialized, conn, last>>
lifecycleVars == <<bridgeInstance, instances, lockFiles, peers, platform, call>>
reviewVars == <<review, ptyIdRef, cleanupFns, runs, stopped, step>>
xtermVars == <<terminalState, writeBuffer, isFlushPending, flushTimers, exitTimers, ptyExited,
               received, written, passed, exitCalls, xstep>>
vars == <<parserVars, bridgeVars, lifecycleVars, reviewVars, xtermVars>>

\* ------------------------------------------------------------------ bounds
MaxPieces == 3
MaxConns == 2
MaxId == 2
MaxInstances == 2
MaxPorts == 2
MaxClients == 1
MaxRuns == 2
MaxContent == 2
MaxLines == 2
MaxOutput == 3

\* -------------------------------------------------------------- characters
ESC == "ESC"
CSI == "CSI"
LF == "\n"
CR == "\r"
QUOTE == "\""

Digits == {"0", "1", "2", "3", "4", "5", "6", "7", "8", "9"}

\* [[()#;?] of ansiRegex
AnsiPrefixChars == {"[", "(", ")", "#", ";", "?"}

\* [0-9A-ORZcf-nqry=><] of ansiRegex
AnsiFinalChars ==
  Digits \cup {"A", "B", "C", "D", "E", "F", "G", "H", "I", "J", "K", "L", "M", "N", "O"}
         \cup {"R", "Z", "c", "f", "g", "h", "i", "j", "k", "l", "m", "n", "q", "r", "y"}
         \cup {"=", ">", "<"}

\* what String.prototype.trim removes, of the characters a line can hold
TrimChars == {" ", "\t", CR, LF}

Max(S) == CHOOSE x \in S : \A y \in S : y <= x
Min(S) == CHOOSE x \in S : \A y \in S : x <= y

\* ------------------------------------------------- the ANSI regular expression
\* The final byte at j: the index after the match, 0 for no match.
AnsiFinal(s, j) == IF j <= Len(s) /\ s[j] \in AnsiFinalChars THEN j + 1 ELSE 0

\* how many characters of class cls start at j, at most cap
RECURSIVE RunLen(_, _, _, _)
RunLen(s, j, cls, cap) ==
  IF cap = 0 \/ j > Len(s) \/ s[j] \notin cls THEN 0
  ELSE 1 + RunLen(s, j + 1, cls, cap - 1)

\* (?:;[0-9]{0,4})* then the final byte, greedy with backtracking: one more
\* repetition with the most digits that still lets the rest match, else none.
RECURSIVE AnsiRepeatThenFinal(_, _)
AnsiRepeatThenFinal(s, j) ==
  LET more == IF j <= Len(s) /\ s[j] = ";"
              THEN {d \in 0..RunLen(s, j + 1, Digits, 4) : AnsiRepeatThenFinal(s, j + 1 + d) # 0}
              ELSE {}
  IN IF more # {} THEN AnsiRepeatThenFinal(s, j + 1 + Max(more))
     ELSE AnsiFinal(s, j)

\* (?:[0-9]{1,4}(?:;[0-9]{0,4})*)? then the final byte
AnsiParamsThenFinal(s, j) ==
  LET with == {d \in 1..RunLen(s, j, Digits, 4) : AnsiRepeatThenFinal(s, j + d) # 0}
  IN IF with # {} THEN AnsiRepeatThenFinal(s, j + Max(with))
     ELSE AnsiFinal(s, j)

\* ansiRegex tried at i: the index after the match, 0 for no match
AnsiMatchEnd(s, i) ==
  IF i > Len(s) \/ s[i] \notin {ESC, CSI} THEN 0
  ELSE LET run == RunLen(s, i + 1, AnsiPrefixChars, Len(s))
           ps == {p \in 0..run : AnsiParamsThenFinal(s, i + 1 + p) # 0}
       IN IF ps = {} THEN 0 ELSE AnsiParamsThenFinal(s, i + 1 + Max(ps))

\* line.replace(this.ansiRegex, ''): the leftmost match is cut out, and the
\* search goes on in the text after it
RECURSIVE StripAnsi(_)
StripAnsi(s) ==
  LET starts == {i \in 1..Len(s) : AnsiMatchEnd(s, i) # 0}
      first == Min(starts)
  IN IF starts = {} THEN s
     ELSE SubSeq(s, 1, first - 1) \o StripAnsi(SubSeq(s, AnsiMatchEnd(s, first), Len(s)))

\* ------------------------------------------------------------------- trim
RECURSIVE TrimLeft(_)
TrimLeft(s) == IF s # <<>> /\ Head(s) \in TrimChars THEN TrimLeft(Tail(s)) ELSE s

RECURSIVE TrimRight(_)
TrimRight(s) ==
  IF s # <<>> /\ s[Len(s)] \in TrimChars THEN TrimRight(SubSeq(s, 1, Len(s) - 1)) ELSE s

Trim(s) == TrimRight(TrimLeft(s))

\* ------------------------------------------------------------- JSON.parse
\* A parsed JSON value.  Every value has the same fields, so that any two can
\* be compared: t is its kind, n a number's value, s a string's characters,
\* o an object's members in order, each <<key, value>>, or an array's items.
JNum(n) == [t |-> "number", n |-> n, s |-> <<>>, o |-> <<>>]
JStr(s) == [t |-> "string", n |-> 0, s |-> s, o |-> <<>>]
JObj(o) == [t |-> "object", n |-> 0, s |-> <<>>, o |-> o]
JArr(a) == [t |-> "array", n |-> 0, s |-> <<>>, o |-> a]
JLit(word) == [t |-> word, n |-> 0, s |-> <<>>, o |-> <<>>]
JBool(b) == IF b THEN JLit("true") ELSE JLit("false")

\* the result of a parsing step: whether it matched, the index after it, its value
JFail == [ok |-> FALSE, next |-> 0, val |-> JNum(0)]
JOk(next, val) == [ok |-> TRUE, next |-> next, val |-> val]

\* JSON's insignificant whitespace and the characters a string may not hold raw
JsonWs == {" ", "\t", LF, CR}
JsonControl == {ESC, "\t", LF, CR}

\* the two-character escapes of a JSON string: the character after the
\* backslash and the character it stands for (\b and \f are in no text here)
SimpleEscapes == {QUOTE, "\\", "/", "n", "r", "t"}
Unescape(c) ==
  CASE c = "n" -> LF [] c = "r" -> CR [] c = "t" -> "\t" [] OTHER -> c

\* the \uXXXX escape JSON.stringify writes for U+001B, after the backslash
EscText == <<"u", "0", "0", "1", "b">>

DigitVal(c) ==
  CASE c = "0" -> 0 [] c = "1" -> 1 [] c = "2" -> 2 [] c = "3" -> 3 [] c = "4" -> 4
    [] c = "5" -> 5 [] c = "6" -> 6 [] c = "7" -> 7 [] c = "8" -> 8 [] c = "9" -> 9

RECURSIVE SkipWs(_, _)
SkipWs(s, i) == IF i <= Len(s) /\ s[i] \in JsonWs THEN SkipWs(s, i + 1) ELSE i

\* the text at i is word
TextAt(s, i, word) == i + Len(word) - 1 <= Len(s) /\ SubSeq(s, i, i + Len(word) - 1) = word

\* the rest of a string from i on, acc its characters so far: up to the closing
\* quote, with the escapes decoded.  Of the \uXXXX escapes the texts of the
\* model hold only that of U+001B.
RECURSIVE StringBody(_, _, _)
StringBody(s, i, acc) ==
  IF i > Len(s) \/ s[i] \in JsonControl THEN JFail
  ELSE IF s[i] = QUOTE THEN JOk(i + 1, JStr(acc))
  ELSE IF s[i] # "\\" THEN StringBody(s, i + 1, Append(acc, s[i]))
  ELSE IF i + 1 <= Len(s) /\ s[i + 1] \in SimpleEscapes
    THEN StringBody(s, i + 2, Append(acc, Unescape(s[i + 1])))
  ELSE IF TextAt(s, i + 1, EscText) THEN StringBody(s, i + 6, Append(acc, ESC))
  ELSE JFail

JsonString(s, i) ==
  IF i > Len(s) \/ s[i] # QUOTE THEN JFail ELSE StringBody(s, i + 1, <<>>)

RECURSIVE DigitsValue(_, _, _)
DigitsValue(s, i, k) ==
  IF k = 0 THEN 0 ELSE 10 * DigitsValue(s, i, k - 1) + DigitVal(s[i + k - 1])

\* an integer: -?(0|[1-9][0-9]*); a fraction or an exponent needs characters
\* ('.', 'e', 'E' after a digit) that no text of the model holds there
JsonNumber(s, i) ==
  LET neg == i <= Len(s) /\ s[i] = "-"
      j == IF neg THEN i + 1 ELSE i
      run == RunLen(s, j, Digits, Len(s))
      k == IF run > 0 /\ s[j] = "0" THEN 1 ELSE run
      v == DigitsValue(s, j, k)
  IN IF k = 0 THEN JFail ELSE JOk(j + k, JNum(IF neg THEN 0 - v ELSE v))

\* true, false or null at i
JsonLiteral(s, i) ==
  IF TextAt(s, i, <<"t", "r", "u", "e">>) THEN JOk(i + 4, JLit("true"))
  ELSE IF TextAt(s, i, <<"f", "a", "l", "s", "e">>) THEN JOk(i + 5, JLit("false"))
  ELSE IF TextAt(s, i, <<"n", "u", "l", "l">>) THEN JOk(i + 4, JLit("null"))
  ELSE JFail

\* obj[key] = val as JSON.parse does it: a repeated key keeps its first place
\* and takes the last value
RECURSIVE SetMember(_, _, _)
SetMember(o, key, val) ==
  IF o = <<>> THEN <<<<key, val>>>>
  ELSE IF Head(o)[1] = key THEN <<<<key, val>>>> \o Tail(o)
  ELSE <<Head(o)>> \o SetMember(Tail(o), key, val)

RECURSIVE JsonValue(_, _)
RECURSIVE JsonMembers(_, _, _)
RECURSIVE JsonElements(_, _, _)

\* the members of an object from the key at i on, acc the members before
JsonMembers(s, i, acc) ==
  LET k == JsonString(s, i)
      c == SkipWs(s, k.next)
      v == JsonValue(s, SkipWs(s, c + 1))
      e == SkipWs(s, v.next)
      obj == SetMember(acc, k.val.s, v.val)
  IN IF ~k.ok \/ c > Len(s) \/ s[c] # ":" THEN JFail
     ELSE IF ~v.ok \/ e > Len(s) THEN JFail
     ELSE IF s[e] = "}" THEN JOk(e + 1, JObj(obj))
     ELSE IF s[e] = "," THEN JsonMembers(s, SkipWs(s, e + 1), obj)
     ELSE JFail

\* the items of an array from the value at i on, acc the items before
JsonElements(s, i, acc) ==
  LET v == JsonValue(s, i)
      e == SkipWs(s, v.next)
  IN IF ~v.ok \/ e > Len(s) THEN JFail
     ELSE IF s[e] = "]" THEN JOk(e + 1, JArr(Append(acc, v.val)))
     ELSE IF s[e] = "," THEN JsonElements(s, SkipWs(s, e + 1), Append(acc, v.val))
     ELSE JFail

\* a value at i: an object, an array, a string, a literal or a number
JsonValue(s, i) ==
  IF i > Len(s) THEN JFail
  ELSE IF s[i] = "{"
    THEN LET j == SkipWs(s, i + 1)
         IN IF j <= Len(s) /\ s[j] = "}" THEN JOk(j + 1, JObj(<<>>))
            ELSE JsonMembers(s, j, <<>>)
  ELSE IF s[i] = "["
    THEN LET j == SkipWs(s, i + 1)
         IN IF j <= Len(s) /\ s[j] = "]" THEN JOk(j + 1, JArr(<<>>))
            ELSE JsonElements(s, j, <<>>)
  ELSE IF s[i] = QUOTE THEN JsonString(s, i)
  ELSE IF s[i] \in {"t", "f", "n"} THEN JsonLiteral(s, i)
  ELSE JsonNumber(s, i)

\* JSON.parse(text): ok is FALSE where it throws
JsonParse(text) ==
  LET r == JsonValue(text, SkipWs(text, 1))
  IN IF r.ok /\ SkipWs(text, r.next) > Len(text) THEN r ELSE JFail

\* value[key] of a parsed value: the member of an object, undefined where
\* there is none or the value is no object
Undefined == JLit("undefined")

RECURSIVE MemberOf(_, _)
MemberOf(o, key) ==
  IF o = <<>> THEN Undefined
  ELSE IF Head(o)[1] = key THEN Head(o)[2]
  ELSE MemberOf(Tail(o), key)

Member(v, key) == IF v.t = "object" THEN MemberOf(v.o, key) ELSE Undefined

\* --------------------------------------------------------- JSON.stringify
DigitText(d) ==
  CASE d = 0 -> "0" [] d = 1 -> "1" [] d = 2 -> "2" [] d = 3 -> "3" [] d = 4 -> "4"
    [] d = 5 -> "5" [] d = 6 -> "6" [] d = 7 -> "7" [] d = 8 -> "8" [] d = 9 -> "9"

\* the decimal digits of a natural number
RECURSIVE NatText(_)
NatText(n) == IF n < 10 THEN <<DigitText(n)>> ELSE NatText(n \div 10) \o <<DigitText(n % 10)>>

\* one character of a string as JSON.stringify writes it
EscapeChar(c) ==
  CASE c = QUOTE -> <<"\\", QUOTE>>
    [] c = "\\" -> <<"\\", "\\">>
    [] c = LF -> <<"\\", "n">>
    [] c = CR -> <<"\\", "r">>
    [] c = "\t" -> <<"\\", "t">>
    [] c = ESC -> <<"\\">> \o EscText
    [] OTHER -> <<c>>

RECURSIVE EscapeText(_)
EscapeText(s) == IF s = <<>> THEN <<>> ELSE EscapeChar(Head(s)) \o EscapeText(Tail(s))

QuoteText(s) == <<QUOTE>> \o EscapeText(s) \o <<QUOTE>>

\* JSON.stringify(value), without indentation
RECURSIVE Stringify(_)
RECURSIVE StringifyItems(_, _)
StringifyItems(items, isObject) ==
  IF items = <<>> THEN <<>>
  ELSE LET one == IF isObject
                  THEN QuoteText(Head(items)[1]) \o <<":">> \o Stringify(Head(items)[2])
                  ELSE Stringify(Head(items))
       IN IF Len(items) = 1 THEN one
          ELSE one \o <<",">> \o StringifyItems(Tail(items), isObject)

Stringify(v) ==
  CASE v.t = "number" -> IF v.n < 0 THEN <<"-">> \o NatText(0 - v.n) ELSE NatText(v.n)
    [] v.t = "string" -> QuoteText(v.s)
    [] v.t = "object" -> <<"{">> \o StringifyItems(v.o, TRUE) \o <<"}">>
    [] v.t = "array" -> <<"[">> \o StringifyItems(v.o, FALSE) \o <<"]">>
    [] v.t = "true" -> <<"t", "r", "u", "e">>
    [] v.t = "false" -> <<"f", "a", "l", "s", "e">>
    [] OTHER -> <<"n", "u", "l", "l">>

\* ------------------------------------------------- StreamJsonParser.parse
\* this.buffer.split(/\r?\n/): the text before the first terminator (a line
\* feed, with the carriage return before it if there is one), then the lines
\* of the text after it
RECURSIVE SplitLines(_)
SplitLines(s) ==
  LET feeds == {i \in 1..Len(s) : s[i] = LF}
      first == Min(feeds)
      end == IF first > 1 /\ s[first - 1] = CR THEN first - 2 ELSE first - 1
  IN IF feeds = {} THEN <<s>>
     ELSE <<SubSeq(s, 1, end)>> \o SplitLines(SubSeq(s, first + 1, Len(s)))

\* the mutation of KeepLast: the partial line is thrown away
KeepLastDropped(lines) == <<>>

\* lines.pop() || '': the text after the last terminator stays in the buffer
KeepLast(lines) == lines[Len(lines)]

\* the lines before the popped one
CompleteLines(lines) == SubSeq(lines, 1, Len(lines) - 1)

\* the mutation of DecodeLine: every line that is JSON is decoded, whatever
\* its first character
DecodeLineAnyJson(line) ==
  LET cleanLine == Trim(StripAnsi(line))
      parsed == JsonParse(cleanLine)
  IN IF cleanLine # <<>> /\ parsed.ok THEN <<parsed.val>> ELSE <<>>

\* the body of the loop over one line: the events it adds
DecodeLine(line) ==
  LET cleanLine == Trim(StripAnsi(line))
      parsed == JsonParse(cleanLine)
  IN IF cleanLine = <<>> THEN <<>>
     ELSE IF Head(cleanLine) = "{" /\ parsed.ok THEN <<parsed.val>>
     ELSE <<>>

RECURSIVE DecodeLines(_)
DecodeLines(lines) ==
  IF lines = <<>> THEN <<>> ELSE DecodeLine(Head(lines)) \o DecodeLines(Tail(lines))

\* the mutation of ParseChunk: the partial line is trimmed before it is kept
ParseChunkTrimmed(buf, chunk) ==
  LET lines == SplitLines(buf \o chunk)
  IN [buffer |-> Trim(KeepLast(lines)), events |-> DecodeLines(CompleteLines(lines))]

\* parse(chunk) on a parser whose buffer is buf: the new buffer and the events returned
ParseChunk(buf, chunk) ==
  LET lines == SplitLines(buf \o chunk)
  IN [buffer |-> KeepLast(lines), events |-> DecodeLines(CompleteLines(lines))]

\* ------------------------------------------------------------ the streams
\* The subprocess output is made of these pieces: records, terminators,
\* a colour sequence and noise.
RecA == <<"{", QUOTE, "a", QUOTE, ":", "1", "}">>
RecBLine == <<"{", "}", LF>>
Colour == <<ESC, "[", "3", "m">>
Pieces == {RecA, RecBLine, <<LF>>, <<CR, LF>>, Colour, <<"x">>, <<"{">>}

RECURSIVE StreamsOf(_)
StreamsOf(k) ==
  IF k = 0 THEN {<<>>}
  ELSE LET shorter == StreamsOf(k - 1)
       IN shorter \cup {p \o t : p \in Pieces, t \in shorter}

Streams == StreamsOf(MaxPieces)

\* no reset() yet
NoReset == [fed |-> 0, events |-> 0]

InitParser ==
  /\ stream \in Streams
  /\ fed = 0
  /\ buffer = <<>>
  /\ events = <<>>
  /\ resetAt = NoReset

\* onData: the next n characters of the stream arrive as one chunk
Feed(n) ==
  /\ fed + n <= Len(stream)
  /\ LET r == ParseChunk(buffer, SubSeq(stream, fed + 1, fed + n))
     IN /\ buffer' = r.buffer
        /\ events' = events \o r.events
  /\ fed' = fed + n
  /\ UNCHANGED <<stream, resetAt>>

\* the mutation of ParserReset: the partial line is kept
ParserResetKeeps(buf) == buf

\* reset(): the buffer after it
ParserReset(buf) == <<>>

\* reset() called between two chunks
ResetParser ==
  /\ buffer' = ParserReset(buffer)
  /\ resetAt' = [fed |-> fed, events |-> Len(events)]
  /\ UNCHANGED <<stream, fed, events>>


\* ============================================================ the bridge
NoClient == 0
Conns == 1..MaxConns

\* ws.close(1008, 'Unauthorized')
PolicyViolation == 1008
\* error(ws, id, -32002, 'Server not initialized')
NotInitializedCode == -32002
\* error(ws, id, -32601, ...)
NotFoundCode == -32601

\* export const MCP_TOOLS: McpTool[] = []
MCP_TOOLS == <<>>

\* ---------------------------------------------------------- the transport
\* The x-claude-code-ide-authorization header of an upgrade request: a token,
\* or NoHeader when the request has none (req.headers[...] is undefined).
NoHeader == 0
Headers == {NoHeader, 1, 2}

\* A WebSocket as the bridge sees it.  state is its readyState ("none" before
\* the connection event); code is the code the bridge closed it with (0: none
\* given, or not closed by the bridge); peerDone: the peer's side is over,
\* nothing more arrives; listening: the message and close listeners are
\* registered.  sentInit is not read by the bridge: it records that the peer
\* has sent a notifications/initialized notification on this socket.
NoSocket ==
  [state |-> "none", header |-> NoHeader, code |-> 0, peerDone |-> FALSE,
   listening |-> FALSE, sentInit |-> FALSE]

\* ws.close(code): starts the closing handshake of an open socket, and is
\* nothing on a socket already closing or closed
WsClose(sock, code) ==
  IF sock.state = "OPEN"
  THEN [sock EXCEPT !.state = "CLOSING", !.code = code]
  ELSE sock

\* ws.send(data) reaches the peer of an open socket; on a closing or closed
\* one it is discarded without an exception
WsDelivers(sock) == sock.state = "OPEN"

\* --------------------------------------------------------------- messages
NoMethod == "(no method)"
Methods ==
  {"ping", "initialize", "notifications/initialized", "ide_connected", "tools/list",
   "prompts/list", "resources/list", "tools/call", "workspace/other"}
NoVersion == "(no jsonrpc)"

\* The text of an inbound frame, by what JSON.parse makes of it: kind "text"
\* does not parse; "null" parses to null and "scalar" to a value that has no
\* members of its own (a number, string, boolean or array); "object" parses to
\* an object with these members (hasId: it has an id member, id its value).
RawOf(kind, jsonrpc, hasId, id, method) ==
  [kind |-> kind, jsonrpc |-> jsonrpc, hasId |-> hasId, id |-> id, method |-> method]

NoRaw == RawOf("none", NoVersion, FALSE, 0, NoMethod)

Raws ==
  {RawOf("text", NoVersion, FALSE, 0, NoMethod),
   RawOf("null", NoVersion, FALSE, 0, NoMethod),
   RawOf("scalar", NoVersion, FALSE, 0, NoMethod)}
  \cup {RawOf("object", "2.0", FALSE, 0, m) : m \in Methods \cup {NoMethod}}
  \cup {RawOf("object", "2.0", TRUE, i, m) : i \in 1..MaxId, m \in Methods \cup {NoMethod}}
  \cup {RawOf("object", v, FALSE, 0, m) :
          v \in {"1.0", NoVersion}, m \in {"ping", "notifications/initialized"}}
  \cup {RawOf("object", v, TRUE, 1, m) :
          v \in {"1.0", NoVersion}, m \in {"ping", "notifications/initialized"}}

\* safeJsonParse(s): null where JSON.parse throws, else the value
SafeJsonParse(raw) ==
  IF raw.kind = "text" THEN RawOf("null", NoVersion, FALSE, 0, NoMethod) ELSE raw

\* the mutation of Malformed: the jsonrpc member is not looked at
MalformedNoVersionCheck(msg) == msg.kind = "null"

\* !msg || msg.jsonrpc !== '2.0'
Malformed(msg) == msg.kind = "null" \/ msg.jsonrpc # "2.0"

\* !('id' in msg) || msg.id === undefined
IsNotification(msg) == ~msg.hasId

\* ----------------------------------------------------------------- frames
Frame(kind, id, code, what, items) ==
  [kind |-> kind, id |-> id, code |-> code, what |-> what, items |-> items]

\* a send call: the frame and the socket it is given to
SendTo(c, frame) == [to |-> c, frame |-> frame]

\* the mutation of Reply: the response does not carry the request's id
ReplyFixedId(c, id, what, items) == <<SendTo(c, Frame("result", 1, 0, what, items))>>

\* reply(ws, id, result)
Reply(c, id, what, items) == <<SendTo(c, Frame("result", id, 0, what, items))>>

\* error(ws, id, code, message)
Error(c, id, code, message) == <<SendTo(c, Frame("error", id, code, message, <<>>))>>

\* the mutation of NotYetInitialized: the gate is never closed
NeverGated(init, method) == FALSE

\* !initialized && method !== 'ping'
NotYetInitialized(init, method) == ~init /\ method # "ping"

\* the mutation of DispatchInitialized: tools/call is answered like tools/list
DispatchToolsCallAnswered(c, id, method) ==
  IF method \in {"tools/list", "tools/call"} THEN Reply(c, id, "tools", MCP_TOOLS)
  ELSE IF method = "prompts/list" THEN Reply(c, id, "prompts", <<>>)
  ELSE IF method = "resources/list" THEN Reply(c, id, "resources", <<>>)
  ELSE Error(c, id, NotFoundCode, "Method not found")

\* the method table behind the gate
DispatchInitialized(c, id, method) ==
  IF method = "tools/list" THEN Reply(c, id, "tools", MCP_TOOLS)
  ELSE IF method = "prompts/list" THEN Reply(c, id, "prompts", <<>>)
  ELSE IF method = "resources/list" THEN Reply(c, id, "resources", <<>>)
  ELSE IF method = "tools/call" THEN Error(c, id, NotFoundCode, "Tool not found")
  ELSE Error(c, id, NotFoundCode, "Method not found")

\* the mutation of OnRequest: the gate comes before ping and initialize
OnRequestGateFirst(init, c, id, method) ==
  IF ~init THEN Error(c, id, NotInitializedCode, "Server not initialized")
  ELSE IF method = "ping" THEN Reply(c, id, "empty", <<>>)
  ELSE IF method = "initialize" THEN Reply(c, id, "capabilities", <<>>)
  ELSE DispatchInitialized(c, id, method)

\* onMessage from `const { id, method, params } = msg` on: the sends it makes
OnRequest(init, c, id, method) ==
  IF method = "ping" THEN Reply(c, id, "empty", <<>>)
  ELSE IF method = "initialize" THEN Reply(c, id, "capabilities", <<>>)
  ELSE IF NotYetInitialized(init, method)
    THEN Error(c, id, NotInitializedCode, "Server not initialized")
  ELSE DispatchInitialized(c, id, method)

\* the mutation of OnNotification: every notification sets the flag
OnNotificationAlways(init, c, msg) == [initialized |-> TRUE, sends |-> <<>>]

\* the branch of onMessage for a message without an id
OnNotification(init, c, msg) ==
  [initialized |-> init \/ msg.method = "notifications/initialized", sends |-> <<>>]

\* onMessage(ws, raw) with the handler's flag at init: the flag afterwards and
\* the sends made
OnMessage(init, c, raw) ==
  LET msg == SafeJsonParse(raw)
  IN IF Malformed(msg) THEN [initialized |-> init, sends |-> <<>>]
     ELSE IF IsNotification(msg) THEN OnNotification(init, c, msg)
     ELSE [initialized |-> init, sends |-> OnRequest(init, c, msg.id, msg.method)]

\* ------------------------------------------------- startClaudeIdeBridge
NotifyMethods == {"selection_changed", "at_mentioned"}

\* What the latest step was and what the code did in it: the event (op, the
\* connection c, the inbound text raw or the notification method), the state
\* it found (was...), whether a listener of the bridge ran (handled), and the
\* send calls made, each with whether the transport delivered it.
Observed(op, c, raw, method, handled, out) ==
  [op |-> op, c |-> c, raw |-> raw, method |-> method,
   wasInitialized |-> initialized, wasClient |-> currentClient,
   wasState |-> IF c \in Conns THEN conn[c].state ELSE "none",
   handled |-> handled, out |-> out]

\* the send calls as they end: delivered or discarded by the transport
Outcome(cs, sends) ==
  [k \in 1..Len(sends) |->
     [to |-> sends[k].to, frame |-> sends[k].frame, delivered |-> WsDelivers(cs[sends[k].to])]]

\* the mutation of Authorized: every connection is let in
AuthorizedAlways(header, token) == TRUE

\* the negation of `token !== authToken`
Authorized(header, token) == header = token

\* the mutation of Displace: the previous peer is left open
DisplaceNothing(cs, cur, c) == cs

\* if (currentClient && currentClient !== ws) currentClient.close()
Displace(cs, cur, c) ==
  IF cur # NoClient /\ cur # c THEN [cs EXCEPT ![cur] = WsClose(cs[cur], 0)] ELSE cs

\* the mutation of PeerOpen: the readyState is not looked at
PeerOpenUnchecked(cur, cs) == cur # NoClient

\* currentClient && currentClient.readyState === 1
PeerOpen(cur, cs) == cur # NoClient /\ cs[cur].state = "OPEN"

\* sendNotification(method, params): the send calls it makes
SendNotification(cur, cs, method) ==
  IF PeerOpen(cur, cs) THEN <<SendTo(cur, Frame("notification", 0, 0, method, <<>>))>>
  ELSE <<>>

\* the state a started bridge is in: a fresh token, no peer, a handler that
\* has seen nothing, and no connection yet
InitBridge ==
  /\ authToken = 1
  /\ currentClient = NoClient
  /\ initialized = FALSE
  /\ conn = [c \in Conns |-> NoSocket]
  /\ last = [op |-> "start", c |-> 0, raw |-> NoRaw, method |-> NoMethod,
             wasInitialized |-> FALSE, wasClient |-> NoClient, wasState |-> "none",
             handled |-> FALSE, out |-> <<>>]

\* wss.on('connection'): the upgrade of connection c, carrying header, completes.
\* Connections are numbered in the order they arrive.
OnConnection(c, header) ==
  /\ conn[c].state = "none"
  /\ (c > 1 => conn[c - 1].state # "none")
  /\ LET opened == [conn EXCEPT ![c] = [NoSocket EXCEPT !.state = "OPEN", !.header = header]]
     IN IF ~Authorized(header, authToken)
        THEN /\ conn' = [opened EXCEPT ![c] = WsClose(@, PolicyViolation)]
             /\ UNCHANGED currentClient
        ELSE /\ conn' = [Displace(opened, currentClient, c) EXCEPT ![c].listening = TRUE]
             /\ currentClient' = c
  /\ last' = Observed("connection", c, NoRaw, NoMethod, TRUE, <<>>)
  /\ UNCHANGED <<authToken, initialized>>

\* the text is a JSON-RPC 2.0 notification with method notifications/initialized
IsInitializedNotification(raw) ==
  /\ raw.kind = "object"
  /\ raw.jsonrpc = "2.0"
  /\ ~raw.hasId
  /\ raw.method = "notifications/initialized"

\* ws.on('message'): a frame of the peer of c arrives.  It can, until the
\* peer's side is over, also on a socket the bridge is closing.  Without a
\* registered listener nothing runs.
OnData(c, raw) ==
  /\ conn[c].state \in {"OPEN", "CLOSING"}
  /\ ~conn[c].peerDone
  /\ IF conn[c].listening
     THEN LET r == OnMessage(initialized, c, raw)
          IN /\ initialized' = r.initialized
             /\ last' = Observed("message", c, raw, NoMethod, TRUE, Outcome(conn, r.sends))
     ELSE /\ UNCHANGED initialized
          /\ last' = Observed("message", c, raw, NoMethod, FALSE, <<>>)
  /\ conn' = [conn EXCEPT ![c].sentInit = @ \/ IsInitializedNotification(raw)]
  /\ UNCHANGED <<authToken, currentClient>>

\* the peer of c closes (its close frame arrives, or it answers the bridge's,
\* or the transport is lost): the socket is closing and nothing more arrives
PeerCloses(c) ==
  /\ conn[c].state \in {"OPEN", "CLOSING"}
  /\ ~conn[c].peerDone
  /\ conn' = [conn EXCEPT ![c].state = "CLOSING", ![c].peerDone = TRUE]
  /\ last' = Observed("peerCloses", c, NoRaw, NoMethod, FALSE, <<>>)
  /\ UNCHANGED <<authToken, currentClient, initialized>>

\* the mutation of OnClose: the slot is cleared whoever the active peer is
OnCloseClearsAlways(c) ==
  /\ conn[c].state = "CLOSING"
  /\ conn[c].peerDone
  /\ conn' = [conn EXCEPT ![c].state = "CLOSED"]
  /\ currentClient' = IF conn[c].listening THEN NoClient ELSE currentClient
  /\ last' = Observed("close", c, NoRaw, NoMethod, conn[c].listening, <<>>)
  /\ UNCHANGED <<authToken, initialized>>

\* ws.on('close'): the close of c completes
OnClose(c) ==
  /\ conn[c].state = "CLOSING"
  /\ conn[c].peerDone
  /\ conn' = [conn EXCEPT ![c].state = "CLOSED"]
  /\ currentClient' = IF conn[c].listening /\ currentClient = c THEN NoClient ELSE currentClient
  /\ last' = Observed("close", c, NoRaw, NoMethod, conn[c].listening, <<>>)
  /\ UNCHANGED <<authToken, initialized>>

\* sendSelectionChanged / sendAtMentioned, and the ipcMain listeners of the
\* two renderer channels: sendNotification(method, params)
Notify(method) ==
  /\ LET sends == SendNotification(currentClient, conn, method)
     IN last' = Observed("notify", 0, NoRaw, method, TRUE, Outcome(conn, sends))
  /\ UNCHANGED <<authToken, currentClient, initialized, conn>>

\* ================================================= the discovery records
NoPort == 0
Ports == 1..MaxPorts

\* process.pid
Pid == 42

\* the platforms process.platform can name, of which one is win32
Platforms == {"win32", "linux"}

\* ideName = 'EnsoAI'
IdeName == <<"E", "n", "s", "o", "A", "I">>

\* workspace folders: a plain path, and one with characters JSON must escape
FolderA == <<"/", "a">>
FolderB == <<"C", ":", "\\", QUOTE, "b">>
FolderLists == {<<>>, <<FolderB, FolderA>>}

\* the characters of a token (a UUID in the code, told apart by its number)
TokenText(token) == <<"u", "-">> \o NatText(token)

\* A file: whether it exists, and its text
NoFile == [exists |-> FALSE, text |-> <<>>]
FileOf(text) == [exists |-> TRUE, text |-> text]

\* const payload: LockFilePayload = {...}
LockFilePayload(token, folders, ideName, os) ==
  JObj(<<
    <<<<"p", "i", "d">>, JNum(Pid)>>,
    <<<<"w", "o", "r", "k", "s", "p", "a", "c", "e", "F", "o", "l", "d", "e", "r", "s">>,
      JArr([k \in 1..Len(folders) |-> JStr(folders[k])])>>,
    <<<<"i", "d", "e", "N", "a", "m", "e">>, JStr(ideName)>>,
    <<<<"t", "r", "a", "n", "s", "p", "o", "r", "t">>, JStr(<<"w", "s">>)>>,
    <<<<"r", "u", "n", "n", "i", "n", "g", "I", "n", "W", "i", "n", "d", "o", "w", "s">>,
      JBool(os = "win32")>>,
    <<<<"a", "u", "t", "h", "T", "o", "k", "e", "n">>, JStr(TokenText(token))>>
  >>)

\* How a file operation ends: done; refused before anything changed (mkdirSync
\* or the open fails); or, for a write, torn (the file was opened and
\* truncated and the write failed).
IoOutcomes == {"ok", "denied", "torn"}

\* the mutation of WriteFileSync: the text is appended to what the file holds
WriteFileSyncAppend(file, text) == FileOf(file.text \o text)

\* fs.writeFileSync(lockPath, text): the file holds the text and nothing else
WriteFileSync(file, text) == FileOf(text)

\* JSON.stringify(payload) for every payload of the model, worked out once
PayloadTexts ==
  [token \in 1..(MaxInstances + 1), folders \in FolderLists, os \in Platforms |->
     Stringify(LockFilePayload(token, folders, IdeName, os))]

\* writeLockFile({port, authToken, workspaceFolders, ideName}): the files
\* afterwards and whether it threw
WriteLockFile(files, port, token, folders, os, io) ==
  IF io = "ok"
  THEN [threw |-> FALSE,
        files |-> [files EXCEPT ![port] = WriteFileSync(@, PayloadTexts[token, folders, os])]]
  ELSE IF io = "torn" THEN [threw |-> TRUE, files |-> [files EXCEPT ![port] = FileOf(<<>>)]]
  ELSE [threw |-> TRUE, files |-> files]

\* the mutation of DeleteLockFile: nothing is unlinked
DeleteLockFileSkipped(files, port, io) == files

\* deleteLockFile(port): unlinks the file if it exists; a failure is ignored
DeleteLockFile(files, port, io) ==
  IF files[port].exists /\ io = "ok" THEN [files EXCEPT ![port] = NoFile] ELSE files

\* ================================================== the bridge lifecycle
NoInstance == 0
Insts == 1..MaxInstances

\* The closure of one startClaudeIdeBridge call.  state: "none" (not called
\* yet), "starting" (awaiting the listener), "running" (the instance was
\* returned), "failed" (the call threw after the listener started) and
\* "disposed"; listening: the HTTP server accepts connections.
NoInst ==
  [state |-> "none", port |-> NoPort, authToken |-> NoHeader, workspaceFolders |-> <<>>,
   currentClient |-> NoClient, listening |-> FALSE]

\* A socket of a client of some instance
Clients == 1..MaxClients
NoPeer == [state |-> "none", header |-> NoHeader, code |-> 0, inst |-> NoInstance]

\* an argument that may be left out: workspaceFolders?: string[]
Given(folders) == [given |-> TRUE, folders |-> folders]
NotGiven == [given |-> FALSE, folders |-> <<>>]
FolderArgs == {NotGiven} \cup {Given(f) : f \in FolderLists}

Started(insts) == {i \in Insts : insts[i].state # "none"}

\* the mutation of RandomUUID: every instance gets the same token
RandomUUIDFixed(insts) == 1

\* crypto.randomUUID(): a token no earlier call has returned
RandomUUID(insts) == Cardinality(Started(insts)) + 1

\* the ports the operating system can hand to a new listener
FreePorts(insts) == {p \in Ports : \A i \in Insts : ~(insts[i].listening /\ insts[i].port = p)}

\* What the latest call of the module's interface was and how it ended: its
\* arguments, whether it threw, whether it has returned; for a call of
\* writeLockFile or deleteLockFile itself also the port and token it was
\* given and whether the file existed before; for a notification of the UI
\* the sockets it was delivered to.
Called(op, arg, threw, returned) ==
  [op |-> op, arg |-> arg, threw |-> threw, returned |-> returned,
   port |-> NoPort, token |-> NoHeader, existed |-> FALSE, sent |-> {}]

LifecycleIdle ==
  /\ bridgeInstance = NoInstance
  /\ instances = [i \in Insts |-> NoInst]
  /\ lockFiles = [p \in Ports |-> NoFile]
  /\ peers = [c \in Clients |-> NoPeer]
  /\ platform = "linux"
  /\ call = Called("none", NotGiven, FALSE, FALSE)

InitLifecycle ==
  /\ bridgeInstance = NoInstance
  /\ instances = [i \in Insts |-> NoInst]
  /\ lockFiles = [p \in Ports |-> NoFile]
  /\ peers = [c \in Clients |-> NoPeer]
  /\ platform \in Platforms
  /\ call = Called("none", NotGiven, FALSE, FALSE)

\* startClaudeIdeBridge up to its await: the token is drawn, the servers are
\* made and listen(0) is asked for
StartBegin(insts, i, folders) ==
  [insts EXCEPT ![i] = [NoInst EXCEPT !.state = "starting",
                                      !.authToken = RandomUUID(insts),
                                      !.workspaceFolders = folders]]

\* setClaudeBridgeEnabled(true, arg) with no recorded instance: a start begins
\* and the call awaits it
EnableBegin(op, arg) ==
  /\ bridgeInstance = NoInstance
  /\ \E i \in Insts :
       /\ instances[i].state = "none"
       /\ \A j \in Insts : j < i => instances[j].state # "none"
       /\ instances' = StartBegin(instances, i, arg.folders)
  /\ call' = Called(op, arg, FALSE, FALSE)
  /\ UNCHANGED <<bridgeInstance, lockFiles, peers, platform>>

\* The listener of instance i is up on port: startClaudeIdeBridge goes on from
\* its await, writes the lock file and returns the instance, and the awaiting
\* caller records it.  If the write throws, so do startClaudeIdeBridge and
\* its caller, and no instance is recorded.
StartFinish(i, port, io) ==
  /\ instances[i].state = "starting"
  /\ port \in FreePorts(instances)
  /\ LET w == WriteLockFile(lockFiles, port, instances[i].authToken,
                            instances[i].workspaceFolders, platform, io)
     IN /\ lockFiles' = w.files
        /\ instances' = [instances EXCEPT ![i].port = port, ![i].listening = TRUE,
                                         ![i].state = IF w.threw THEN "failed" ELSE "running"]
        /\ bridgeInstance' = IF w.threw THEN bridgeInstance ELSE i
        /\ call' = [call EXCEPT !.threw = w.threw, !.returned = ~w.threw]
  /\ UNCHANGED <<peers, platform>>

\* the mutation of UpdateWorkspaceFolders: the active peer is forgotten
UpdateWorkspaceFoldersDropsPeer(i, folders, io) ==
  LET w == WriteLockFile(lockFiles, instances[i].port, instances[i].authToken, folders,
                         platform, io)
  IN [threw |-> w.threw, files |-> w.files,
      insts |-> [instances EXCEPT ![i].workspaceFolders = folders,
                                  ![i].currentClient = NoClient]]

\* updateWorkspaceFolders(folders) of instance i
UpdateWorkspaceFolders(i, folders, io) ==
  LET w == WriteLockFile(lockFiles, instances[i].port, instances[i].authToken, folders,
                         platform, io)
  IN [threw |-> w.threw, files |-> w.files,
      insts |-> [instances EXCEPT ![i].workspaceFolders = folders]]

\* setClaudeBridgeEnabled(true, arg) with an instance recorded
EnableRunning(arg, io) ==
  /\ bridgeInstance # NoInstance
  /\ IF arg.given
     THEN LET u == UpdateWorkspaceFolders(bridgeInstance, arg.folders, io)
          IN /\ instances' = u.insts
             /\ lockFiles' = u.files
             /\ call' = Called("enable", arg, u.threw, ~u.threw)
     ELSE /\ UNCHANGED <<instances, lockFiles>>
          /\ call' = Called("enable", arg, FALSE, TRUE)
  /\ UNCHANGED <<bridgeInstance, peers, platform>>

\* updateClaudeWorkspaceFolders(folders)
UpdateClaudeWorkspaceFolders(folders, io) ==
  /\ IF bridgeInstance # NoInstance
     THEN LET u == UpdateWorkspaceFolders(bridgeInstance, folders, io)
          IN /\ instances' = u.insts
             /\ lockFiles' = u.files
             /\ call' = Called("update", Given(folders), u.threw, ~u.threw)
     ELSE /\ UNCHANGED <<instances, lockFiles>>
          /\ call' = Called("update", Given(folders), FALSE, TRUE)
  /\ UNCHANGED <<bridgeInstance, peers, platform>>

\* dispose() of instance i: the lock file is deleted and the servers closed.
\* wss.close() and httpServer.close() stop listening; the sockets already
\* open stay open.
Dispose(insts, i) == [insts EXCEPT ![i].state = "disposed", ![i].listening = FALSE]

\* setClaudeBridgeEnabled(false)
Disable(op, io) ==
  /\ IF bridgeInstance # NoInstance
     THEN /\ lockFiles' = DeleteLockFile(lockFiles, instances[bridgeInstance].port, io)
          /\ instances' = Dispose(instances, bridgeInstance)
          /\ bridgeInstance' = NoInstance
     ELSE UNCHANGED <<bridgeInstance, instances, lockFiles>>
  /\ call' = Called(op, NotGiven, FALSE, TRUE)
  /\ UNCHANGED <<peers, platform>>

\* getClaudeBridgeStatus()
GetClaudeBridgeStatus(bi, insts) ==
  [enabled |-> bi # NoInstance,
   port |-> IF bi # NoInstance THEN insts[bi].port ELSE NoPort]

\* wss.on('connection') of the instance listening on port: a client's upgrade
\* request carrying header completes.  Clients are numbered in the order they
\* connect.
Connect(c, port, header) ==
  /\ peers[c].state = "none"
  /\ (c > 1 => peers[c - 1].state # "none")
  /\ \E i \in Insts :
       /\ instances[i].listening
       /\ instances[i].port = port
       /\ LET opened == [peers EXCEPT ![c] = [state |-> "OPEN", header |-> header,
                                              code |-> 0, inst |-> i]]
          IN IF ~Authorized(header, instances[i].authToken)
             THEN /\ peers' = [opened EXCEPT ![c] = WsClose(@, PolicyViolation)]
                  /\ UNCHANGED instances
             ELSE /\ peers' = Displace(opened, instances[i].currentClient, c)
                  /\ instances' = [instances EXCEPT ![i].currentClient = c]
  /\ call' = Called("connection", NotGiven, FALSE, TRUE)
  /\ UNCHANGED <<bridgeInstance, lockFiles, platform>>

\* the socket of client c closes, and with it ws.on('close') runs if the
\* instance registered it
Disconnect(c) ==
  /\ peers[c].state \in {"OPEN", "CLOSING"}
  /\ peers' = [peers EXCEPT ![c].state = "CLOSED"]
  /\ instances' = [i \in Insts |->
                     IF instances[i].currentClient = c
                     THEN [instances[i] EXCEPT !.currentClient = NoClient]
                     ELSE instances[i]]
  /\ call' = Called("close", NotGiven, FALSE, TRUE)
  /\ UNCHANGED <<bridgeInstance, lockFiles, platform>>

\* The renderer raises selection_changed or at_mentioned: every listener
\* registered with ipcMain.on runs.  Each startClaudeIdeBridge call registered
\* its own before its await and nothing removes one, so the sendNotification
\* of every closure made so far is called, each with its own currentClient.
IpcListeners(insts) == Started(insts)

\* the sockets the notification is delivered to
IpcDeliveries(insts, ps) ==
  {insts[i].currentClient : i \in {j \in IpcListeners(insts) : PeerOpen(insts[j].currentClient, ps)}}

IpcNotify(method) ==
  /\ call' = [Called(method, NotGiven, FALSE, TRUE) EXCEPT !.sent = IpcDeliveries(instances, peers)]
  /\ UNCHANGED <<bridgeInstance, instances, lockFiles, peers, platform>>

\* no call of the interface is awaiting a start
NoCallPending == \A i \in Insts : instances[i].state # "starting"

\* ===================================================== the review hook
\* ------------------------------------------------ the names in a record
KeyType == <<"t", "y", "p", "e">>
KeySubtype == <<"s", "u", "b", "t", "y", "p", "e">>
KeyEvent == <<"e", "v", "e", "n", "t">>
KeyDelta == <<"d", "e", "l", "t", "a">>
KeyText == <<"t", "e", "x", "t">>
KeyTotalCostUsd == <<"t", "o", "t", "a", "l", "_", "c", "o", "s", "t", "_", "u", "s", "d">>
KeyModel == <<"m", "o", "d", "e", "l">>
KeyModelUsage == <<"m", "o", "d", "e", "l", "U", "s", "a", "g", "e">>
KeyMessage == <<"m", "e", "s", "s", "a", "g", "e">>
TxtSystem == <<"s", "y", "s", "t", "e", "m">>
TxtInit == <<"i", "n", "i", "t">>
TxtError == <<"e", "r", "r", "o", "r">>
TxtStreamEvent == <<"s", "t", "r", "e", "a", "m", "_", "e", "v", "e", "n", "t">>
TxtContentBlockDelta == <<"c", "o", "n", "t", "e", "n", "t", "_", "b", "l", "o", "c", "k", "_", "d", "e", "l", "t", "a">>
TxtMessageStop == <<"m", "e", "s", "s", "a", "g", "e", "_", "s", "t", "o", "p">>
TxtResult == <<"r", "e", "s", "u", "l", "t">>
TxtAssistant == <<"a", "s", "s", "i", "s", "t", "a", "n", "t">>

\* ----------------------------------------------------- the event classifier
\* typeof value === 'string' && value === text
IsText(v, text) == v.t = "string" /\ v.s = text

\* event.event?.type
NestedType(event) == Member(Member(event, KeyEvent), KeyType)

\* StreamJsonParser.isInitEvent(event)
IsInitEvent(event) ==
  IsText(Member(event, KeyType), TxtSystem) /\ IsText(Member(event, KeySubtype), TxtInit)

\* the mutation of IsErrorEvent: the type is not looked at
IsErrorEventAnyType(event) == IsText(Member(event, KeySubtype), TxtError)

\* StreamJsonParser.isErrorEvent(event)
IsErrorEvent(event) ==
  IsText(Member(event, KeyType), TxtSystem) /\ IsText(Member(event, KeySubtype), TxtError)

\* StreamJsonParser.isResultEvent(event)
IsResultEvent(event) == IsText(Member(event, KeyType), TxtResult)

\* StreamJsonParser.isMessageEndEvent(event)
IsMessageEndEvent(event) ==
  IsText(Member(event, KeyType), TxtStreamEvent) /\ IsText(NestedType(event), TxtMessageStop)

\* a value is truthy
Truthy(v) ==
  CASE v.t = "string" -> v.s # <<>>
    [] v.t = "number" -> v.n # 0
    [] v.t \in {"object", "array", "true"} -> TRUE
    [] OTHER -> FALSE

\* String(value), of a string, a number or a literal (the records of the
\* model hold no object or array where a text is expected)
ToText(v) ==
  CASE v.t = "string" -> v.s
    [] v.t = "number" -> IF v.n < 0 THEN <<"-">> \o NatText(0 - v.n) ELSE NatText(v.n)
    [] v.t = "true" -> <<"t", "r", "u", "e">>
    [] v.t = "false" -> <<"f", "a", "l", "s", "e">>
    [] v.t = "null" -> <<"n", "u", "l", "l">>
    [] OTHER -> <<"[", "o", "b", "j", "e", "c", "t", " ", "O", "b", "j", "e", "c", "t", "]">>

\* the mutation of ExtractTextDelta: the nested event type is not looked at
ExtractTextDeltaAnyEvent(event) ==
  LET text == Member(Member(Member(event, KeyEvent), KeyDelta), KeyText)
  IN IF IsText(Member(event, KeyType), TxtStreamEvent) /\ Truthy(text)
     THEN text
     ELSE JLit("null")

\* StreamJsonParser.extractTextDelta(event): the value returned, null for none
ExtractTextDelta(event) ==
  LET text == Member(Member(Member(event, KeyEvent), KeyDelta), KeyText)
  IN IF /\ IsText(Member(event, KeyType), TxtStreamEvent)
        /\ IsText(NestedType(event), TxtContentBlockDelta)
        /\ Truthy(text)
     THEN text
     ELSE JLit("null")

\* a value the hook holds or null
NoCost == [has |-> FALSE, n |-> 0]
NoModel == [has |-> FALSE, s |-> <<>>]

\* the mutation of ExtractCost: the record type is not looked at
ExtractCostAnyRecord(event) ==
  LET cost == Member(event, KeyTotalCostUsd)
  IN IF cost.t = "number" THEN [has |-> TRUE, n |-> cost.n] ELSE [has |-> FALSE, n |-> 0]

\* StreamJsonParser.extractCost(event)
ExtractCost(event) ==
  LET cost == Member(event, KeyTotalCostUsd)
  IN IF IsResultEvent(event) /\ cost.t = "number" THEN [has |-> TRUE, n |-> cost.n] ELSE NoCost

\* the greatest array index, 2^32 - 2, as a key
MaxIndexKey == <<"4", "2", "9", "4", "9", "6", "7", "2", "9", "4">>

\* a and b are digit texts of one length and a is below b
RECURSIVE DigitsBelow(_, _)
DigitsBelow(a, b) ==
  IF a = <<>> THEN FALSE
  ELSE IF Head(a) # Head(b) THEN DigitVal(Head(a)) < DigitVal(Head(b))
  ELSE DigitsBelow(Tail(a), Tail(b))

\* as numbers, index key a is below index key b
IndexBelow(a, b) == Len(a) < Len(b) \/ (Len(a) = Len(b) /\ DigitsBelow(a, b))

\* the key is an integer-like key, which Object.keys lists before the others
\* and in ascending order: the canonical text of an array index
IsIndexKey(key) ==
  /\ key # <<>>
  /\ \A i \in 1..Len(key) : key[i] \in Digits
  /\ Len(key) > 1 => key[1] # "0"
  /\ key = MaxIndexKey \/ IndexBelow(key, MaxIndexKey)

\* the mutation of FirstKey: the first member of the object as written
FirstKeyAsWritten(v) ==
  CASE v.t = "object" /\ v.o # <<>> -> [has |-> TRUE, s |-> v.o[1][1]]
    [] v.t = "array" /\ v.o # <<>> -> [has |-> TRUE, s |-> <<"0">>]
    [] v.t = "string" /\ v.s # <<>> -> [has |-> TRUE, s |-> <<"0">>]
    [] OTHER -> [has |-> FALSE, s |-> <<>>]

\* Object.keys(value)[0] of a truthy value, if it has one: the least
\* integer-like key of an object, its first member as written if it has none
FirstKey(v) ==
  CASE v.t = "object" /\ v.o # <<>> ->
         LET index == {i \in 1..Len(v.o) : IsIndexKey(v.o[i][1])}
             least == CHOOSE i \in index :
                        \A j \in index : i = j \/ IndexBelow(v.o[i][1], v.o[j][1])
         IN [has |-> TRUE, s |-> IF index = {} THEN v.o[1][1] ELSE v.o[least][1]]
    [] v.t = "array" /\ v.o # <<>> -> [has |-> TRUE, s |-> <<"0">>]
    [] v.t = "string" /\ v.s # <<>> -> [has |-> TRUE, s |-> <<"0">>]
    [] OTHER -> NoModel

\* StreamJsonParser.extractModel(event)
ExtractModel(event) ==
  LET model == Member(event, KeyModel)
      usage == Member(event, KeyModelUsage)
  IN IF ~IsResultEvent(event) THEN NoModel
     ELSE IF model.t = "string" THEN [has |-> TRUE, s |-> model.s]
     ELSE IF Truthy(usage) THEN FirstKey(usage)
     ELSE NoModel

\* ------------------------------------------------------------ useCodeReview
\* the error state: null, or what setError was given
NoError == [kind |-> "null", code |-> 0, text |-> <<>>]
NoRepositoryPath == [kind |-> "No repository path", code |-> 0, text |-> <<>>]
ProcessExited(code) == [kind |-> "Process exited with code", code |-> code, text |-> <<>>]
SpawnFailed == [kind |-> "Failed to start review", code |-> 0, text |-> <<>>]

\* event.message?.toString() || 'Unknown error'
EventError(event) ==
  LET message == Member(event, KeyMessage)
      text == IF message.t \in {"undefined", "null"} THEN <<>> ELSE ToText(message)
  IN IF text = <<>> THEN [kind |-> "Unknown error", code |-> 0, text |-> <<>>]
     ELSE [kind |-> "event", code |-> 0, text |-> text]

\* the state useState holds
ReviewState(content, status, error, cost, model) ==
  [content |-> content, status |-> status, error |-> error, cost |-> cost, model |-> model]

IdleReview == ReviewState(<<>>, "idle", NoError, NoCost, NoModel)

\* the mutation of HandleOther: a message end adds one line feed
HandleOtherOneFeed(rv, event) ==
  LET text == ExtractTextDelta(event)
      r1 == IF Truthy(text) THEN [rv EXCEPT !.content = @ \o ToText(text)] ELSE rv
      r2 == IF IsMessageEndEvent(event) THEN [r1 EXCEPT !.content = @ \o <<LF>>] ELSE r1
  IN IF IsResultEvent(event) THEN [r2 EXCEPT !.status = "complete"] ELSE r2

\* handleEvent(event), from the text delta on
HandleOther(rv, event) ==
  LET text == ExtractTextDelta(event)
      r1 == IF Truthy(text) THEN [rv EXCEPT !.content = @ \o ToText(text)] ELSE rv
      r2 == IF IsMessageEndEvent(event) THEN [r1 EXCEPT !.content = @ \o <<LF, LF>>] ELSE r1
      totalCost == ExtractCost(event)
      modelName == ExtractModel(event)
      r3 == IF IsResultEvent(event)
            THEN [r2 EXCEPT !.cost = IF totalCost.has THEN totalCost ELSE @,
                            !.model = IF modelName.has THEN modelName ELSE @,
                            !.status = "complete"]
            ELSE r2
  IN IF IsErrorEvent(event)
     THEN [r3 EXCEPT !.status = "error", !.error = EventError(event)]
     ELSE r3

\* handleEvent(event)
HandleEvent(rv, event) ==
  IF IsInitEvent(event) THEN [rv EXCEPT !.status = "streaming"] ELSE HandleOther(rv, event)

\* for (const event of events) handleEvent(event)
RECURSIVE HandleEvents(_, _)
HandleEvents(rv, evs) ==
  IF evs = <<>> THEN rv ELSE HandleEvents(HandleEvent(rv, Head(evs)), Tail(evs))

\* ------------------------------------------- what the subprocess can write
InitRecord == JObj(<<<<KeyType, JStr(TxtSystem)>>, <<KeySubtype, JStr(TxtInit)>>>>)
DeltaRecord ==
  JObj(<<<<KeyType, JStr(TxtStreamEvent)>>,
         <<KeyEvent, JObj(<<<<KeyType, JStr(TxtContentBlockDelta)>>,
                            <<KeyDelta, JObj(<<<<KeyText, JStr(<<"h", "i">>)>>>>)>>>>)>>>>)
StopRecord ==
  JObj(<<<<KeyType, JStr(TxtStreamEvent)>>,
         <<KeyEvent, JObj(<<<<KeyType, JStr(TxtMessageStop)>>>>)>>>>)
ResultRecord ==
  JObj(<<<<KeyType, JStr(TxtResult)>>, <<KeyTotalCostUsd, JNum(3)>>,
         <<KeyModel, JStr(<<"m">>)>>>>)
ErrorRecord ==
  JObj(<<<<KeyType, JStr(TxtSystem)>>, <<KeySubtype, JStr(TxtError)>>,
         <<KeyMessage, JStr(<<"b", "o", "o", "m">>)>>>>)

ReviewRecords == {InitRecord, DeltaRecord, StopRecord, ResultRecord, ErrorRecord}

\* the chunks a pty data event can carry: one record and its line terminator
ReviewChunks == {Stringify(r) \o <<LF>> : r \in ReviewRecords}

\* parse(chunk) on an empty buffer for every chunk of the model, worked out once
ParseTable == [chunk \in ReviewChunks |-> ParseChunk(<<>>, chunk)]

\* parserRef.current.parse(data)
ParserParse(buf, chunk) ==
  IF buf = <<>> /\ chunk \in DOMAIN ParseTable THEN ParseTable[chunk] ELSE ParseChunk(buf, chunk)

\* ------------------------------------------- the lines of a review session
\* Further records the subprocess writes: a whole message that repeats the
\* streamed text and carries a cost and a model, the start of a content block,
\* and result records with a summary, with a model that is no string, and
\* with no usage.
KeyContent == <<"c", "o", "n", "t", "e", "n", "t">>
KeyResult == <<"r", "e", "s", "u", "l", "t">>
TxtContentBlockStart == <<"c", "o", "n", "t", "e", "n", "t", "_", "b", "l", "o", "c", "k", "_", "s", "t", "a", "r", "t">>

AssistantRecord ==
  JObj(<<<<KeyType, JStr(TxtAssistant)>>,
         <<KeyMessage, JObj(<<<<KeyContent,
              JArr(<<JObj(<<<<KeyType, JStr(KeyText)>>, <<KeyText, JStr(<<"h", "i">>)>>>>)>>)>>>>)>>,
         <<KeyTotalCostUsd, JNum(5)>>, <<KeyModel, JStr(<<"z">>)>>>>)
BlockStartRecord ==
  JObj(<<<<KeyType, JStr(TxtStreamEvent)>>,
         <<KeyEvent, JObj(<<<<KeyType, JStr(TxtContentBlockStart)>>,
                            <<KeyDelta, JObj(<<<<KeyText, JStr(<<"h", "i">>)>>>>)>>>>)>>>>)
SummaryRecord == JObj(<<<<KeyType, JStr(TxtResult)>>, <<KeyResult, JStr(<<"h", "i">>)>>>>)
NumberModelRecord ==
  JObj(<<<<KeyType, JStr(TxtResult)>>, <<KeyModel, JNum(4)>>,
         <<KeyModelUsage, JObj(<<<<<<"c">>, JObj(<<>>)>>>>)>>>>)
NoUsageRecord ==
  JObj(<<<<KeyType, JStr(TxtResult)>>, <<KeyTotalCostUsd, JNum(0)>>,
         <<KeyModelUsage, JObj(<<>>)>>>>)

\* a result line whose usage mapping names the model "b" before the model "7"
UsageLine ==
  <<"{", QUOTE, "t", "y", "p", "e", QUOTE, ":", QUOTE, "r", "e", "s", "u", "l", "t", QUOTE,
    ",", QUOTE, "m", "o", "d", "e", "l", "U", "s", "a", "g", "e", QUOTE, ":", "{", QUOTE,
    "b", QUOTE, ":", "{", "}", ",", QUOTE, "7", QUOTE, ":", "{", "}", "}", "}", LF>>

\* lines that are no record: text, an unfinished record, JSON that is no
\* object, a colour sequence alone, blanks
TextLine == <<"$", " ", "x", LF>>
UnfinishedLine == <<"{", QUOTE, "a", QUOTE, ":", LF>>
NumberLine == <<"1", LF>>
ColourLine == Colour \o <<LF>>
BlankLine == <<" ", CR, LF>>
NoiseLines == {TextLine, UnfinishedLine, NumberLine, ColourLine, BlankLine}

\* a record written in colour and ended by \r\n
ColouredStopLine == Colour \o Stringify(StopRecord) \o <<CR, LF>>

SessionLines ==
  ReviewChunks
    \cup {Stringify(r) \o <<LF>> : r \in {AssistantRecord, BlockStartRecord, SummaryRecord,
                                          NumberModelRecord, NoUsageRecord}}
    \cup {UsageLine, ColouredStopLine}
    \cup NoiseLines

\* what the subprocesses of a session write: up to MaxLines lines
RECURSIVE LinesOf(_)
LinesOf(k) ==
  IF k = 0 THEN {<<>>}
  ELSE LET shorter == LinesOf(k - 1)
       IN shorter \cup {l \o t : l \in SessionLines, t \in shorter}

SessionStreams == LinesOf(MaxLines)

\* the lines of a session as split finds them, whole and without their first
\* two characters, and what the loop of parse makes of each, worked out once
KnownLines ==
  LET whole == {SplitLines(l)[1] : l \in SessionLines}
  IN whole \cup {SubSeq(t, 3, Len(t)) : t \in whole}

DecodeTable == [line \in KnownLines |-> DecodeLine(line)]

RECURSIVE DecodeKnownLines(_)
DecodeKnownLines(lines) ==
  IF lines = <<>> THEN <<>>
  ELSE (IF Head(lines) \in DOMAIN DecodeTable THEN DecodeTable[Head(lines)]
        ELSE DecodeLine(Head(lines))) \o DecodeKnownLines(Tail(lines))

\* parserRef.current.parse(data) in a session: ParseChunk, with the lines of
\* the table looked up
SessionParse(buf, chunk) ==
  LET lines == SplitLines(buf \o chunk)
  IN [buffer |-> KeepLast(lines), events |-> DecodeKnownLines(CompleteLines(lines))]

\* where the text is cut into chunks: after a line feed and two characters
\* into a line
CutPoints(t) == {i \in 1..Len(t) : t[i] = LF \/ i = 2 \/ (i > 2 /\ t[i - 2] = LF)}

\* ------------------------------------------- records of every marking
\* Records in which the fields the classifier reads are each left out or
\* hold one of the texts it compares with, in every combination: type,
\* subtype, the nested event's type and its delta.text.  <<>> stands for a
\* field that is left out.
ClassifierTypes == {<<>>, TxtSystem, TxtStreamEvent, TxtResult, TxtAssistant}
ClassifierSubtypes == {<<>>, TxtInit, TxtError}
ClassifierNested == {<<>>, TxtContentBlockDelta, TxtMessageStop}
ClassifierTexts == {<<>>, <<"h", "i">>}

Field(key, text) == IF text = <<>> THEN <<>> ELSE <<<<key, JStr(text)>>>>

ClassifierRecord(type, subtype, nested, text) ==
  JObj(Field(KeyType, type) \o Field(KeySubtype, subtype)
         \o (IF nested = <<>> /\ text = <<>> THEN <<>>
             ELSE <<<<KeyEvent,
                      JObj(Field(KeyType, nested)
                             \o (IF text = <<>> THEN <<>>
                                 ELSE <<<<KeyDelta, JObj(Field(KeyText, text))>>>>))>>>>))

ClassifierRecords ==
  {ClassifierRecord(type, subtype, nested, text) :
     type \in ClassifierTypes, subtype \in ClassifierSubtypes,
     nested \in ClassifierNested, text \in ClassifierTexts}

\* parse(line) on an empty buffer for the line of every such record, worked
\* out once
ClassifierTable == [e \in ClassifierRecords |-> ParseChunk(<<>>, Stringify(e) \o <<LF>>)]

\* ---------------------------------------------------------------- the runs
NoPty == 0
Runs == 1..MaxRuns
ExitCodes == {0, 1}

\* One startReview call that got past the repository check.  phase: "none"
\* (not called), "spawning" (awaiting terminal.create), "alive" (the pty
\* runs), "destroyed", "exited", "failed" (create rejected); status: the
\* status of the render the call was made in, which its onExit listener reads.
NoRun == [phase |-> "none", status |-> "idle"]

\* What the latest step was: a call of the hook's interface or an event of
\* pty run; for an exit its code; handled: a listener of the hook took it.
Stepped(op, run, code, handled) == [op |-> op, run |-> run, code |-> code, handled |-> handled]

ReviewIdle ==
  /\ review = IdleReview
  /\ ptyIdRef = NoPty
  /\ cleanupFns = {}
  /\ runs = [k \in Runs |-> NoRun]
  /\ stopped = FALSE
  /\ step = Stepped("mount", NoPty, 0, FALSE)

\* cleanup(): the listeners are removed and the pty of ptyIdRef is destroyed
Cleanup(rs, ref) ==
  IF ref # NoPty /\ rs[ref].phase = "alive" THEN [rs EXCEPT ![ref].phase = "destroyed"] ELSE rs

\* the mutation of StartReviewNoRepo: the text and the figures are cleared
\* as a valid start clears them
StartReviewNoRepoClears ==
  /\ review' = ReviewState(<<>>, "error", NoRepositoryPath, NoCost, NoModel)
  /\ stopped' = FALSE
  /\ step' = Stepped("startReview", NoPty, 0, FALSE)
  /\ UNCHANGED <<buffer, resetAt, ptyIdRef, cleanupFns, runs>>

\* startReview() without a repository path
StartReviewNoRepo ==
  /\ review' = [review EXCEPT !.error = NoRepositoryPath, !.status = "error"]
  /\ stopped' = FALSE
  /\ step' = Stepped("startReview", NoPty, 0, FALSE)
  /\ UNCHANGED <<buffer, resetAt, ptyIdRef, cleanupFns, runs>>

\* startReview() with a repository path, up to its await: run k begins
StartReview(k) ==
  /\ runs[k].phase = "none"
  /\ \A j \in Runs : j < k => runs[j].phase # "none"
  /\ review' = ReviewState(<<>>, "initializing", NoError, NoCost, NoModel)
  /\ buffer' = ParserReset(buffer)
  /\ resetAt' = [fed |-> fed, events |-> Len(events)]
  /\ cleanupFns' = {}
  /\ ptyIdRef' = NoPty
  /\ runs' = [Cleanup(runs, ptyIdRef) EXCEPT ![k] = [phase |-> "spawning",
                                                    status |-> review.status]]
  /\ stopped' = FALSE
  /\ step' = Stepped("startReview", k, 0, TRUE)

\* terminal.create resolves for run k: startReview goes on from its await
SpawnDone(k) ==
  /\ runs[k].phase = "spawning"
  /\ runs' = [runs EXCEPT ![k].phase = "alive"]
  /\ ptyIdRef' = k
  /\ cleanupFns' = cleanupFns \cup {k}
  /\ step' = Stepped("spawned", k, 0, TRUE)
  /\ UNCHANGED <<review, buffer, resetAt, stopped>>

\* terminal.create rejects for run k: the catch block
SpawnFails(k) ==
  /\ runs[k].phase = "spawning"
  /\ runs' = [runs EXCEPT ![k].phase = "failed"]
  /\ review' = [review EXCEPT !.status = "error", !.error = SpawnFailed]
  /\ step' = Stepped("spawnFailed", k, 0, TRUE)
  /\ UNCHANGED <<buffer, resetAt, ptyIdRef, cleanupFns, stopped>>

\* the pty of run k writes chunk while the onData listener of the run is
\* registered.  The text the hook can hold is capped at MaxContent.
OnPtyData(k, chunk) ==
  /\ runs[k].phase = "alive"
  /\ k \in cleanupFns
  /\ Len(review.content) <= MaxContent
  /\ LET r == ParserParse(buffer, chunk)
     IN /\ buffer' = r.buffer
        /\ review' = HandleEvents(review, r.events)
  /\ step' = Stepped("data", k, 0, TRUE)
  /\ UNCHANGED <<resetAt, ptyIdRef, cleanupFns, runs, stopped>>

\* the pty of run k writes the next n characters of the stream as one
\* chunk while the onData listener of the run is registered
OnStreamData(k, n) ==
  /\ runs[k].phase = "alive"
  /\ k \in cleanupFns
  /\ fed + n <= Len(stream)
  /\ LET r == SessionParse(buffer, SubSeq(stream, fed + 1, fed + n))
     IN /\ buffer' = r.buffer
        /\ events' = events \o r.events
        /\ review' = HandleEvents(review, r.events)
  /\ fed' = fed + n
  /\ step' = Stepped("data", k, 0, TRUE)
  /\ UNCHANGED <<stream, resetAt, ptyIdRef, cleanupFns, runs, stopped>>

\* the pty of run k writes the line of record e as one chunk while the onData
\* listener of the run is registered; events holds what this parse returned.
\* The text the hook can hold is capped at MaxContent.
OnRecordData(k, e) ==
  /\ runs[k].phase = "alive"
  /\ k \in cleanupFns
  /\ buffer = <<>>
  /\ Len(review.content) <= MaxContent
  /\ LET r == ClassifierTable[e]
     IN /\ buffer' = r.buffer
        /\ events' = r.events
        /\ review' = HandleEvents(review, r.events)
  /\ step' = Stepped("data", k, 0, TRUE)
  /\ UNCHANGED <<stream, fed, resetAt, ptyIdRef, cleanupFns, runs, stopped>>

\* the onExit listener of a run whose startReview call saw status captured
OnExit(rv, captured, exitCode) ==
  IF exitCode # 0 /\ captured # "complete"
  THEN [rv EXCEPT !.status = "error", !.error = ProcessExited(exitCode)]
  ELSE IF captured # "error" THEN [rv EXCEPT !.status = "complete"]
  ELSE rv

\* the pty of run k exits with exitCode
OnPtyExit(k, exitCode) ==
  /\ runs[k].phase = "alive"
  /\ runs' = [runs EXCEPT ![k].phase = "exited"]
  /\ IF k \in cleanupFns
     THEN /\ review' = OnExit(review, runs[k].status, exitCode)
          /\ ptyIdRef' = NoPty
     ELSE UNCHANGED <<review, ptyIdRef>>
  /\ step' = Stepped("exit", k, exitCode, k \in cleanupFns)
  /\ UNCHANGED <<buffer, resetAt, cleanupFns, stopped>>

\* stopReview()
StopReview ==
  /\ runs' = Cleanup(runs, ptyIdRef)
  /\ cleanupFns' = {}
  /\ ptyIdRef' = NoPty
  /\ review' = [review EXCEPT !.status = "idle"]
  /\ stopped' = TRUE
  /\ step' = Stepped("stopReview", NoPty, 0, TRUE)
  /\ UNCHANGED <<buffer, resetAt>>

\* reset()
Reset ==
  /\ runs' = Cleanup(runs, ptyIdRef)
  /\ cleanupFns' = {}
  /\ ptyIdRef' = NoPty
  /\ review' = IdleReview
  /\ buffer' = ParserReset(buffer)
  /\ resetAt' = [fed |-> fed, events |-> Len(events)]
  /\ stopped' = FALSE
  /\ step' = Stepped("reset", NoPty, 0, TRUE)

\* ====================================================== the terminal
\* useXterm: the data of the pty is collected in writeBuffer and written to
\* the terminal by a timer, and the exit of the pty is handled by a later
\* timer.  Text is a sequence of characters; the pty writes it in chunks.
XtermChunks == {<<"a">>, <<"b", "c">>}

\* what the latest event of the terminal was and what it gave terminal.write
XStepped(op, wrote) == [op |-> op, wrote |-> wrote]

XtermIdle ==
  /\ terminalState = "none"
  /\ writeBuffer = <<>>
  /\ isFlushPending = FALSE
  /\ flushTimers = 0
  /\ exitTimers = 0
  /\ ptyExited = FALSE
  /\ received = <<>>
  /\ written = <<>>
  /\ passed = <<>>
  /\ exitCalls = 0
  /\ xstep = XStepped("mount", <<>>)

\* initTerminal(): terminal.create resolves and the data and exit listeners
\* are registered
InitTerminal ==
  /\ terminalState = "none"
  /\ terminalState' = "ready"
  /\ xstep' = XStepped("initTerminal", <<>>)
  /\ UNCHANGED <<writeBuffer, isFlushPending, flushTimers, exitTimers, ptyExited,
                 received, written, passed, exitCalls>>

\* the mutation of OnXtermData: a timer is set for every data event
OnXtermDataAlwaysSets(chunk) ==
  /\ terminalState = "ready"
  /\ Len(received) + Len(chunk) <= MaxOutput
  /\ writeBuffer' = writeBuffer \o chunk
  /\ received' = received \o chunk
  /\ isFlushPending' = TRUE
  /\ flushTimers' = flushTimers + 1
  /\ xstep' = XStepped("data", <<>>)
  /\ UNCHANGED <<terminalState, exitTimers, ptyExited, written, passed, exitCalls>>

\* the data listener: a data event of the pty carrying chunk.  It can arrive
\* after the exit event.  The output of the pty is capped at MaxOutput.
OnXtermData(chunk) ==
  /\ terminalState = "ready"
  /\ Len(received) + Len(chunk) <= MaxOutput
  /\ writeBuffer' = writeBuffer \o chunk
  /\ received' = received \o chunk
  /\ isFlushPending' = TRUE
  /\ flushTimers' = IF isFlushPending THEN flushTimers ELSE flushTimers + 1
  /\ xstep' = XStepped("data", <<>>)
  /\ UNCHANGED <<terminalState, exitTimers, ptyExited, written, passed, exitCalls>>

\* if (writeBufferRef.current.length > 0) { terminal.write(bufferedData);
\* onDataRef.current?.(bufferedData); writeBufferRef.current = '' }
FlushWriteBuffer ==
  /\ written' = written \o writeBuffer
  /\ passed' = passed \o writeBuffer
  /\ writeBuffer' = <<>>

\* the 30 ms timer of the data listener fires; nothing cancels it
FlushTimer ==
  /\ flushTimers > 0
  /\ FlushWriteBuffer
  /\ isFlushPending' = FALSE
  /\ flushTimers' = flushTimers - 1
  /\ xstep' = XStepped("flush", writeBuffer)
  /\ UNCHANGED <<terminalState, exitTimers, ptyExited, received, exitCalls>>

\* the exit listener: the exit event of the pty
OnXtermExit ==
  /\ terminalState = "ready"
  /\ ~ptyExited
  /\ ptyExited' = TRUE
  /\ exitTimers' = exitTimers + 1
  /\ xstep' = XStepped("exit", <<>>)
  /\ UNCHANGED <<terminalState, writeBuffer, isFlushPending, flushTimers,
                 received, written, passed, exitCalls>>

\* the mutation of ExitTimer: onExit is called and the buffer is left
ExitTimerNoFlush ==
  /\ exitTimers > 0
  /\ exitCalls' = exitCalls + 1
  /\ exitTimers' = exitTimers - 1
  /\ xstep' = XStepped("exitTimer", <<>>)
  /\ UNCHANGED <<terminalState, writeBuffer, isFlushPending, flushTimers, ptyExited,
                 received, written, passed>>

\* the 50 ms timer of the exit listener fires: what is left in the buffer is
\* written and onExit is called; nothing cancels it
ExitTimer ==
  /\ exitTimers > 0
  /\ FlushWriteBuffer
  /\ exitCalls' = exitCalls + 1
  /\ exitTimers' = exitTimers - 1
  /\ xstep' = XStepped("exitTimer", writeBuffer)
  /\ UNCHANGED <<terminalState, isFlushPending, flushTimers, ptyExited, received>>

\* the cleanup of the unmount effect: the listeners are removed, the pty is
\* destroyed and the terminal disposed; the timers stay pending
Unmount ==
  /\ terminalState = "ready"
  /\ terminalState' = "disposed"
  /\ xstep' = XStepped("unmount", <<>>)
  /\ UNCHANGED <<writeBuffer, isFlushPending, flushTimers, exitTimers, ptyExited,
                 received, written, passed, exitCalls>>

\* ============================================== the specifications
ParserIdle ==
  /\ stream = <<>>
  /\ fed = 0
  /\ buffer = <<>>
  /\ events = <<>>
  /\ resetAt = NoReset

Init == InitBridge /\ ParserIdle /\ LifecycleIdle /\ ReviewIdle /\ XtermIdle

\* The frames the peers send in Spec: the handshake notification, a gated
\* request, an ungated request and text that is not JSON.
PeerRaws ==
  {RawOf("object", "2.0", FALSE, 0, "notifications/initialized"),
   RawOf("object", "2.0", TRUE, 1, "tools/list"),
   RawOf("object", "2.0", TRUE, 1, "ping"),
   RawOf("text", NoVersion, FALSE, 0, NoMethod)}

\* The bridge and its connections: any header, any order of connects,
\* frames, closes and UI notifications.
Next ==
  \/ \E c \in Conns, h \in Headers : OnConnection(c, h) /\ UNCHANGED <<parserVars, lifecycleVars, reviewVars, xtermVars>>
  \/ \E c \in Conns, raw \in PeerRaws : OnData(c, raw) /\ UNCHANGED <<parserVars, lifecycleVars, reviewVars, xtermVars>>
  \/ \E c \in Conns : PeerCloses(c) /\ UNCHANGED <<parserVars, lifecycleVars, reviewVars, xtermVars>>
  \/ \E c \in Conns : OnClose(c) /\ UNCHANGED <<parserVars, lifecycleVars, reviewVars, xtermVars>>
  \/ \E m \in NotifyMethods : Notify(m) /\ UNCHANGED <<parserVars, lifecycleVars, reviewVars, xtermVars>>

Spec == Init /\ [][Next]_vars

\* The JSON-RPC handler under every inbound frame of Raws, on the sockets of
\* successive authorized peers.
NextHandler ==
  \/ \E c \in Conns : OnConnection(c, authToken) /\ UNCHANGED <<parserVars, lifecycleVars, reviewVars, xtermVars>>
  \/ \E c \in Conns, raw \in Raws : OnData(c, raw) /\ UNCHANGED <<parserVars, lifecycleVars, reviewVars, xtermVars>>
  \/ \E c \in Conns : PeerCloses(c) /\ UNCHANGED <<parserVars, lifecycleVars, reviewVars, xtermVars>>
  \/ \E c \in Conns : OnClose(c) /\ UNCHANGED <<parserVars, lifecycleVars, reviewVars, xtermVars>>

SpecHandler == Init /\ [][NextHandler]_vars

\* ------------------------------------------------- the decoder on its own
InitDecoder == InitParser /\ InitBridge /\ LifecycleIdle /\ ReviewIdle /\ XtermIdle

NextDecoder == \E n \in 1..Len(stream) : Feed(n) /\ UNCHANGED <<bridgeVars, lifecycleVars, reviewVars, xtermVars>>

SpecDecoder == InitDecoder /\ [][NextDecoder]_vars

\* the decoder fed in chunks of any size, with reset() called between chunks
NextDecoderReset ==
  \/ \E n \in 1..Len(stream) : Feed(n) /\ UNCHANGED <<bridgeVars, lifecycleVars, reviewVars, xtermVars>>
  \/ fed > resetAt.fed /\ ResetParser /\ UNCHANGED <<bridgeVars, lifecycleVars, reviewVars, xtermVars>>

SpecDecoderReset == InitDecoder /\ [][NextDecoderReset]_vars


\* ------------------------------------------------- the lifecycle on its own
\* The discovery records under any order of writeLockFile and deleteLockFile
\* calls, on either platform.
PublishLockFile(port, token, folders, io) ==
  /\ LET w == WriteLockFile(lockFiles, port, token, folders, platform, io)
     IN /\ lockFiles' = w.files
        /\ call' = [Called("writeLockFile", Given(folders), w.threw, ~w.threw)
                      EXCEPT !.port = port, !.token = token,
                             !.existed = lockFiles[port].exists]
  /\ UNCHANGED <<bridgeInstance, instances, peers, platform>>

RetractLockFile(port, io) ==
  /\ lockFiles' = DeleteLockFile(lockFiles, port, io)
  /\ call' = [Called("deleteLockFile", NotGiven, FALSE, TRUE)
                EXCEPT !.port = port, !.existed = lockFiles[port].exists]
  /\ UNCHANGED <<bridgeInstance, instances, peers, platform>>

NextDiscovery ==
  \/ \E p \in Ports, t \in Insts, f \in FolderLists :
       PublishLockFile(p, t, f, "ok") /\ UNCHANGED <<parserVars, bridgeVars, reviewVars, xtermVars>>
  \/ \E p \in Ports : RetractLockFile(p, "ok") /\ UNCHANGED <<parserVars, bridgeVars, reviewVars, xtermVars>>

InitDiscovery == InitBridge /\ ParserIdle /\ InitLifecycle /\ ReviewIdle /\ XtermIdle

SpecDiscovery == InitDiscovery /\ [][NextDiscovery]_vars

\* The calls of the module's interface, one after the other (a call is made
\* when none is awaiting a start), with clients connecting and leaving at any
\* time and presenting no token or the token of any instance started so far.
\* The file operations all succeed.
TokensSoFar == {NoHeader} \cup {instances[i].authToken : i \in Insts}

NextLifecycle ==
  \/ \E arg \in FolderArgs :
       NoCallPending /\ EnableBegin("enable", arg) /\ UNCHANGED <<parserVars, bridgeVars, reviewVars, xtermVars>>
  \/ \E i \in Insts, p \in Ports :
       StartFinish(i, p, "ok") /\ UNCHANGED <<parserVars, bridgeVars, reviewVars, xtermVars>>
  \/ \E arg \in FolderArgs :
       NoCallPending /\ EnableRunning(arg, "ok") /\ UNCHANGED <<parserVars, bridgeVars, reviewVars, xtermVars>>
  \/ \E f \in FolderLists :
       /\ NoCallPending
       /\ UpdateClaudeWorkspaceFolders(f, "ok")
       /\ UNCHANGED <<parserVars, bridgeVars, reviewVars, xtermVars>>
  \/ NoCallPending /\ Disable("disable", "ok") /\ UNCHANGED <<parserVars, bridgeVars, reviewVars, xtermVars>>
  \/ \E c \in Clients, p \in Ports, h \in TokensSoFar :
       Connect(c, p, h) /\ UNCHANGED <<parserVars, bridgeVars, reviewVars, xtermVars>>
  \/ \E c \in Clients : Disconnect(c) /\ UNCHANGED <<parserVars, bridgeVars, reviewVars, xtermVars>>

SpecLifecycle == Init /\ [][NextLifecycle]_vars

\* The same calls when the file operations can fail
NextFaults ==
  \/ \E arg \in FolderArgs :
       NoCallPending /\ EnableBegin("enable", arg) /\ UNCHANGED <<parserVars, bridgeVars, reviewVars, xtermVars>>
  \/ \E i \in Insts, p \in Ports, io \in IoOutcomes :
       StartFinish(i, p, io) /\ UNCHANGED <<parserVars, bridgeVars, reviewVars, xtermVars>>
  \/ \E arg \in FolderArgs, io \in IoOutcomes :
       NoCallPending /\ EnableRunning(arg, io) /\ UNCHANGED <<parserVars, bridgeVars, reviewVars, xtermVars>>
  \/ \E f \in FolderLists, io \in IoOutcomes :
       /\ NoCallPending
       /\ UpdateClaudeWorkspaceFolders(f, io)
       /\ UNCHANGED <<parserVars, bridgeVars, reviewVars, xtermVars>>
  \/ \E io \in IoOutcomes :
       NoCallPending /\ Disable("disable", io) /\ UNCHANGED <<parserVars, bridgeVars, reviewVars, xtermVars>>

SpecFaults == Init /\ [][NextFaults]_vars

\* The calls of the module's interface made at any time, also while an
\* earlier call awaits its listener, with clients connecting and leaving and
\* the renderer raising notifications.  The file operations all succeed.
NextOverlap ==
  \/ \E op \in {"enable", "init"}, arg \in FolderArgs :
       EnableBegin(op, arg) /\ UNCHANGED <<parserVars, bridgeVars, reviewVars, xtermVars>>
  \/ \E i \in Insts, p \in Ports :
       StartFinish(i, p, "ok") /\ UNCHANGED <<parserVars, bridgeVars, reviewVars, xtermVars>>
  \/ \E arg \in FolderArgs :
       EnableRunning(arg, "ok") /\ UNCHANGED <<parserVars, bridgeVars, reviewVars, xtermVars>>
  \/ Disable("disable", "ok") /\ UNCHANGED <<parserVars, bridgeVars, reviewVars, xtermVars>>
  \/ \E c \in Clients, p \in Ports, h \in TokensSoFar :
       Connect(c, p, h) /\ UNCHANGED <<parserVars, bridgeVars, reviewVars, xtermVars>>
  \/ \E c \in Clients : Disconnect(c) /\ UNCHANGED <<parserVars, bridgeVars, reviewVars, xtermVars>>
  \/ \E m \in NotifyMethods : IpcNotify(m) /\ UNCHANGED <<parserVars, bridgeVars, reviewVars, xtermVars>>

SpecOverlap == Init /\ [][NextOverlap]_vars

\* ------------------------------------------------ the review hook on its own
\* One mounted useCodeReview: the calls of its interface in any order, also
\* while a spawn is awaited, and the data and exit events of its ptys.
offReview == <<stream, fed, events, bridgeVars, lifecycleVars, xtermVars>>

NextReview ==
  \/ StartReviewNoRepo /\ UNCHANGED offReview
  \/ \E k \in Runs : StartReview(k) /\ UNCHANGED offReview
  \/ \E k \in Runs : SpawnDone(k) /\ UNCHANGED offReview
  \/ \E k \in Runs : SpawnFails(k) /\ UNCHANGED offReview
  \/ \E k \in Runs, chunk \in ReviewChunks : OnPtyData(k, chunk) /\ UNCHANGED offReview
  \/ \E k \in Runs, exitCode \in ExitCodes : OnPtyExit(k, exitCode) /\ UNCHANGED offReview
  \/ StopReview /\ UNCHANGED offReview
  \/ Reset /\ UNCHANGED offReview

SpecReview == Init /\ [][NextReview]_vars

\* ------------------------------------------- a review session and its lines
\* One mounted useCodeReview whose subprocesses write a drawn text: starts,
\* also while a pty runs, spawns, and the text arriving in chunks.
InitSession ==
  /\ stream \in SessionStreams
  /\ fed = 0
  /\ buffer = <<>>
  /\ events = <<>>
  /\ resetAt = NoReset
  /\ InitBridge /\ LifecycleIdle /\ ReviewIdle /\ XtermIdle

NextSession ==
  \/ \E k \in Runs : StartReview(k) /\ UNCHANGED offReview
  \/ \E k \in Runs : SpawnDone(k) /\ UNCHANGED offReview
  \/ \E k \in Runs, cut \in CutPoints(stream) :
       cut > fed /\ OnStreamData(k, cut - fed) /\ UNCHANGED <<bridgeVars, lifecycleVars, xtermVars>>

SpecSession == InitSession /\ [][NextSession]_vars

\* ------------------------------------------- the classifier and the hook
\* One mounted useCodeReview and one review whose subprocess writes records
\* of every marking, one line a chunk.
NextClassifier ==
  \/ StartReview(1) /\ UNCHANGED offReview
  \/ SpawnDone(1) /\ UNCHANGED offReview
  \/ \E e \in ClassifierRecords :
       OnRecordData(1, e) /\ UNCHANGED <<bridgeVars, lifecycleVars, xtermVars>>

SpecClassifier == Init /\ [][NextClassifier]_vars

\* ------------------------------------------------ the terminal on its own
\* One mounted useXterm: data and exit events of its pty, its timers firing
\* in any order, and the unmount.  A pending timer fires in the end.
offXterm == <<parserVars, bridgeVars, lifecycleVars, reviewVars>>

NextXterm ==
  \/ InitTerminal /\ UNCHANGED offXterm
  \/ \E chunk \in XtermChunks : OnXtermData(chunk) /\ UNCHANGED offXterm
  \/ FlushTimer /\ UNCHANGED offXterm
  \/ OnXtermExit /\ UNCHANGED offXterm
  \/ ExitTimer /\ UNCHANGED offXterm
  \/ Unmount /\ UNCHANGED offXterm

SpecXterm ==
  /\ Init
  /\ [][NextXterm]_vars
  /\ WF_vars(FlushTimer /\ UNCHANGED offXterm)
  /\ WF_vars(ExitTimer /\ UNCHANGED offXterm)

\* what one parse call on everything fed so far returns
WholeEvents == ParseChunk(<<>>, SubSeq(stream, 1, fed)).events

\* C1: however the text fed so far was cut into chunks, the events returned by
\* the parse calls, concatenated, are the events one parse call on the whole
\* text returns: no complete line is lost and none is decoded twice.
ChunkingInvariance == events = WholeEvents

\* a chunk ended between the '\r' and the '\n' of a terminator, after an
\* earlier line was decoded and with a record pending in the buffer
ChunkCutInsideTerminator ==
  /\ fed < Len(stream)
  /\ events # <<>>
  /\ Len(buffer) > 1
  /\ buffer[1] = "{"
  /\ buffer[Len(buffer)] = CR
  /\ stream[fed + 1] = LF

\* ================================================== properties of the bridge
\* connection c was let in: it presented the instance token
Accepted(c) == conn[c].state # "none" /\ conn[c].header = authToken

\* connection c was turned away: its header is missing or is another token
Rejected(c) == conn[c].state # "none" /\ conn[c].header # authToken

\* the latest step handed a frame of connection c's peer to the handler
Handled == last.op = "message" /\ last.handled

\* the text is a request: a JSON-RPC 2.0 object with an id
IsRequest(raw) == raw.kind = "object" /\ raw.jsonrpc = "2.0" /\ raw.hasId

\* the text is well formed: a JSON-RPC 2.0 object with a method
WellFormed(raw) == raw.kind = "object" /\ raw.jsonrpc = "2.0" /\ raw.method # NoMethod

\* notifications/initialized has been received by the handler
ReceivedInitialized == \E c \in Conns : conn[c].listening /\ conn[c].sentInit

\* the one send call of the latest step, where it made exactly one
TheSend == last.out[1]

\* the latest step made one send call: kind, code and body as given, to the
\* connection the frame came from and with the request's id
Answered(kind, code, what) ==
  /\ Len(last.out) = 1
  /\ TheSend.to = last.c
  /\ TheSend.frame = Frame(kind, last.raw.id, code, what, <<>>)

\* C2: when an authorized connection is accepted while another is the active
\* peer, the earlier one's transport is closed and the new one is the active
\* peer; no accepted connection other than the active peer is open; and a
\* notification goes to the active peer only, never to a displaced one.
LastConnectWins ==
  /\ (last.op = "connection" /\ Accepted(last.c) /\ last.wasClient # NoClient)
       => /\ currentClient = last.c
          /\ conn[last.wasClient].state \in {"CLOSING", "CLOSED"}
  /\ \A c \in Conns : (Accepted(c) /\ c # currentClient) => conn[c].state # "OPEN"
  /\ last.op = "notify"
       => \A k \in 1..Len(last.out) :
            /\ last.out[k].to = currentClient
            /\ conn[last.out[k].to].state = "OPEN"

\* a notification reached the second peer while the first, displaced, was
\* still in its closing handshake
NotifiedAfterDisplacement ==
  /\ last.op = "notify"
  /\ Len(last.out) = 1
  /\ TheSend.to = 2
  /\ TheSend.delivered
  /\ Accepted(1)
  /\ conn[1].state = "CLOSING"
  /\ ~conn[1].peerDone

\* C3: a connection whose authorization header is missing or differs from the
\* instance token is closed with code 1008, has no listener, is never the
\* active peer, has none of its frames handled (no send, no change of the
\* initialized flag) and is sent nothing.
UnauthorizedShutOut ==
  /\ \A c \in Conns :
       Rejected(c) => /\ conn[c].state \in {"CLOSING", "CLOSED"}
                      /\ conn[c].code = PolicyViolation
                      /\ ~conn[c].listening
                      /\ currentClient # c
  /\ (last.op = "message" /\ Rejected(last.c))
       => /\ ~last.handled
          /\ last.out = <<>>
          /\ initialized = last.wasInitialized
  /\ \A k \in 1..Len(last.out) : ~Rejected(last.out[k].to)

\* a rejected connection sent notifications/initialized while a peer was active
UnauthorizedFrameIgnored ==
  /\ last.op = "message"
  /\ Rejected(last.c)
  /\ IsInitializedNotification(last.raw)
  /\ currentClient # NoClient
  /\ ~initialized

\* C4: a request whose method is neither ping nor initialize is answered
\* with error -32002 as long as notifications/initialized has not been
\* received; once it has, tools/list is answered with the tool list.
HandshakeGate ==
  (Handled /\ IsRequest(last.raw) /\ last.raw.method \notin {"ping", "initialize"})
    => /\ ~ReceivedInitialized
            => Answered("error", NotInitializedCode, "Server not initialized")
       /\ (ReceivedInitialized /\ last.raw.method = "tools/list")
            => /\ Answered("result", 0, "tools")
               /\ TheSend.frame.items = MCP_TOOLS

\* tools/list was answered with the tool list after the handshake
ToolsListedAfterInitialized ==
  /\ Handled
  /\ IsRequest(last.raw)
  /\ last.raw.method = "tools/list"
  /\ ReceivedInitialized
  /\ Len(last.out) = 1
  /\ TheSend.frame.kind = "result"

\* C5 as claimed: a tools/list request on a connection that has not itself
\* sent notifications/initialized is answered with error -32002, whatever
\* earlier connections have sent.
InitializedPerConnection ==
  (Handled /\ IsRequest(last.raw) /\ last.raw.method = "tools/list" /\ ~conn[last.c].sentInit)
    => Answered("error", NotInitializedCode, "Server not initialized")

\* C6: ping is answered with an empty result and initialize with the
\* capability descriptor, whether or not the handler is initialized; neither
\* is answered with error -32002.
PingAndInitializeUngated ==
  /\ (Handled /\ IsRequest(last.raw) /\ last.raw.method = "ping")
       => Answered("result", 0, "empty")
  /\ (Handled /\ IsRequest(last.raw) /\ last.raw.method = "initialize")
       => Answered("result", 0, "capabilities")

\* initialize was answered with a result before the handshake completed
InitializeAnsweredBeforeInitialized ==
  /\ Handled
  /\ IsRequest(last.raw)
  /\ last.raw.method = "initialize"
  /\ ~initialized
  /\ Len(last.out) = 1
  /\ TheSend.frame.kind = "result"

\* C7: once notifications/initialized has been received, tools/list,
\* prompts/list and resources/list are answered with their (empty) lists,
\* tools/call and every method outside the table with error -32601; a
\* tools/call request is never answered with a result.
DispatchAfterInitialized ==
  /\ (Handled /\ IsRequest(last.raw) /\ ReceivedInitialized)
       => CASE last.raw.method \in {"ping", "initialize"} -> TRUE
            [] last.raw.method = "tools/list" ->
                 Answered("result", 0, "tools") /\ TheSend.frame.items = <<>>
            [] last.raw.method = "prompts/list" -> Answered("result", 0, "prompts")
            [] last.raw.method = "resources/list" -> Answered("result", 0, "resources")
            [] last.raw.method = "tools/call" -> Answered("error", NotFoundCode, "Tool not found")
            [] OTHER -> Answered("error", NotFoundCode, "Method not found")
  /\ (Handled /\ IsRequest(last.raw) /\ last.raw.method = "tools/call")
       => \A k \in 1..Len(last.out) : last.out[k].frame.kind # "result"

\* tools/call was refused with -32601 after the handshake
ToolsCallRefused ==
  /\ Handled
  /\ IsRequest(last.raw)
  /\ last.raw.method = "tools/call"
  /\ ReceivedInitialized
  /\ Len(last.out) = 1
  /\ TheSend.frame.code = NotFoundCode

\* the text is not JSON, or JSON that is no JSON-RPC 2.0 object
Unparseable(raw) == raw.kind # "object" \/ raw.jsonrpc # "2.0"

ResponseCardinality ==
  (Handled /\ WellFormed(last.raw))
    => IF last.raw.hasId
       THEN /\ Len(last.out) = 1
            /\ TheSend.to = last.c
            /\ TheSend.frame.id = last.raw.id
            /\ TheSend.frame.kind \in {"result", "error"}
       ELSE last.out = <<>>

\* a request with the second id, on the second connection, drew one response
\* with that id on that connection
SecondIdAnsweredOnSecondConnection ==
  /\ Handled
  /\ WellFormed(last.raw)
  /\ last.raw.hasId
  /\ last.raw.id = 2
  /\ last.c = 2
  /\ Len(last.out) = 1
  /\ TheSend.to = 2
  /\ TheSend.frame.id = 2
  /\ TheSend.delivered

\* C10: sendNotification sends nothing when there is no active peer or the
\* active peer's socket is not open, and sends the notification once, to the
\* active peer, when it is open; either way it changes nothing of the bridge.
NotifyOnlyOpenPeer ==
  [][last'.op = "notify"
       => /\ UNCHANGED <<authToken, currentClient, initialized, conn>>
          /\ IF currentClient # NoClient /\ conn[currentClient].state = "OPEN"
             THEN last'.out = <<[to |-> currentClient,
                                 frame |-> Frame("notification", 0, 0, last'.method, <<>>),
                                 delivered |-> TRUE]>>
             ELSE last'.out = <<>>]_vars

\* a notification was raised while the active peer's disconnect was in flight
\* and nothing was sent
NotifyDuringDisconnect ==
  /\ last.op = "notify"
  /\ currentClient # NoClient
  /\ conn[currentClient].state = "CLOSING"
  /\ last.out = <<>>

\* ------------------------------------------------- reading a lock file
\* every text writeLockFile can leave in a file, with what JSON.parse makes of it
ParsedTexts ==
  [text \in {PayloadTexts[x] : x \in DOMAIN PayloadTexts} \cup {<<>>} |-> JsonParse(text)]

\* what a reader of the file gets: JSON.parse of its text
ReadLockFile(file) ==
  IF file.text \in DOMAIN ParsedTexts THEN ParsedTexts[file.text] ELSE JsonParse(file.text)

WorkspaceFoldersKey ==
  <<"w", "o", "r", "k", "s", "p", "a", "c", "e", "F", "o", "l", "d", "e", "r", "s">>

FoldersValue(folders) == JArr([k \in 1..Len(folders) |-> JStr(folders[k])])

IsRunning(i) == instances[i].state = "running"

\* C11: at every moment a lock file exists for a port exactly when a running
\* (started and not disposed) instance is bound to that port, no two running
\* instances share a port, and the workspaceFolders member of the file of a
\* running instance is the instance's workspace folders in memory.
DiscoveryRecordInvariant ==
  /\ \A p \in Ports :
       lockFiles[p].exists <=> \E i \in Insts : IsRunning(i) /\ instances[i].port = p
  /\ \A i, j \in Insts :
       IsRunning(i) /\ IsRunning(j) /\ i # j => instances[i].port # instances[j].port
  /\ \A i \in Insts :
       IsRunning(i) =>
         LET r == ReadLockFile(lockFiles[instances[i].port])
         IN /\ r.ok
            /\ Member(r.val, WorkspaceFoldersKey) = FoldersValue(instances[i].workspaceFolders)

\* an instance was disposed, a later one runs on the port it had, and its
\* folders were updated to a list that is not the one it started with
RecordRewrittenOnReusedPort ==
  /\ instances[1].state = "disposed"
  /\ IsRunning(2)
  /\ instances[2].port = instances[1].port
  /\ call.op = "update"
  /\ call.returned
  /\ instances[2].workspaceFolders = <<FolderB, FolderA>>

\* C12: a writeLockFile call leaves a file whose text reads back as exactly
\* the payload of that call, whatever the file held before; after a
\* deleteLockFile call the file does not exist; a deleteLockFile call for a
\* port without a file changes nothing and does not throw.
LockFileRoundTrip ==
  [][/\ call'.op = "writeLockFile" =>
          LET r == ReadLockFile(lockFiles'[call'.port])
          IN /\ lockFiles'[call'.port].exists
             /\ r.ok
             /\ r.val = LockFilePayload(call'.token, call'.arg.folders, IdeName, platform)
     /\ call'.op = "deleteLockFile" =>
          /\ ~lockFiles'[call'.port].exists
          /\ ~call'.threw
          /\ ~lockFiles[call'.port].exists => lockFiles' = lockFiles]_vars

\* a file that existed was written again with a shorter folder list, on win32
LockFileOverwritten ==
  /\ call.op = "writeLockFile"
  /\ call.existed
  /\ call.arg.folders = <<>>
  /\ platform = "win32"
  /\ \E p \in Ports : p # call.port /\ ~lockFiles[p].exists

\* the state of the recorded instance apart from its workspace folders
Closure(inst) == [inst EXCEPT !.workspaceFolders = <<>>]

\* C13: setClaudeBridgeEnabled(true, folders) with a bridge running keeps the
\* recorded instance, its port, token, listener and active peer, starts no
\* instance, and touches no lock file but the instance's own;
\* setClaudeBridgeEnabled(false) with no bridge running changes nothing; and
\* getClaudeBridgeStatus reports enabled with the port of the running instance
\* exactly when an instance is running, and disabled with a null port otherwise.
IdempotentToggle ==
  [][/\ call'.op = "enable" /\ bridgeInstance # NoInstance =>
          /\ bridgeInstance' = bridgeInstance
          /\ peers' = peers
          /\ \A i \in Insts : Closure(instances'[i]) = Closure(instances[i])
          /\ \A i \in Insts : i # bridgeInstance => instances'[i] = instances[i]
          /\ \A p \in Ports : p # instances[bridgeInstance].port => lockFiles'[p] = lockFiles[p]
          /\ call'.arg.given => instances'[bridgeInstance].workspaceFolders = call'.arg.folders
          /\ ~call'.arg.given => UNCHANGED <<instances, lockFiles>>
     /\ call'.op = "disable" /\ bridgeInstance = NoInstance =>
          UNCHANGED <<bridgeInstance, instances, lockFiles, peers>>
     /\ LET status == GetClaudeBridgeStatus(bridgeInstance', instances')
        IN IF \E i \in Insts : instances'[i].state = "running"
           THEN /\ status.enabled
                /\ \E i \in Insts : instances'[i].state = "running" /\ status.port = instances'[i].port
                /\ status.port \in Ports
           ELSE status = [enabled |-> FALSE, port |-> NoPort]]_vars

\* enable was called with folders on a running bridge that has an active peer
EnabledAgainWithPeer ==
  /\ call.op = "enable"
  /\ call.arg.given
  /\ call.returned
  /\ bridgeInstance # NoInstance
  /\ instances[bridgeInstance].currentClient # NoClient
  /\ peers[instances[bridgeInstance].currentClient].state = "OPEN"
  /\ instances[bridgeInstance].workspaceFolders = <<FolderB, FolderA>>

\* the client behind socket c was turned away
TurnedAway(c) ==
  /\ peers[c].state \in {"CLOSING", "CLOSED"}
  /\ peers[c].code = PolicyViolation
  /\ \A i \in Insts : instances[i].currentClient # c

\* C14: the tokens of any two instances ever started differ, and a client
\* that presents to an instance the token of another, disposed, instance is
\* closed with 1008 and never becomes the active peer.
TokenPerInstance ==
  /\ \A i, j \in Started(instances) : i # j => instances[i].authToken # instances[j].authToken
  /\ \A c \in Clients, j \in Insts :
       /\ peers[c].state # "none"
       /\ j # peers[c].inst
       /\ instances[j].state = "disposed"
       /\ peers[c].header = instances[j].authToken
       => TurnedAway(c)

\* after disable and enable, a client presents the first instance's token to
\* the second instance and is turned away
StaleTokenTurnedAway ==
  \E c \in Clients :
    /\ peers[c].inst = 2
    /\ instances[1].state = "disposed"
    /\ IsRunning(2)
    /\ peers[c].header = instances[1].authToken
    /\ TurnedAway(c)

\* C15 as claimed: no call of the interface throws because a lock file could
\* not be written or deleted, and every start whose listener came up ends
\* with a running instance recorded as the bridge.
DiscoveryErrorsSwallowed ==
  /\ ~call.threw
  /\ \A i \in Insts : instances[i].state # "failed"
  /\ \A i \in Insts : instances[i].listening => bridgeInstance = i

\* ------------------------------------------------------- the review states
Alive == {k \in Runs : runs[k].phase = "alive"}

\* C16 as claimed: while the status is complete or error no data event and
\* no exit event changes it.
TerminalStatusKept ==
  [][review.status \in {"complete", "error"} /\ step'.op \in {"data", "exit"}
        => review'.status = review.status]_vars

\* C17 as claimed: a nonzero exit handled while the status is complete
\* leaves the status complete and the error as it was.
NonzeroExitKeepsComplete ==
  [][step'.op = "exit" /\ step'.handled /\ step'.code # 0 /\ review.status = "complete"
        => review'.status = "complete" /\ review'.error = review.error]_vars

\* C18 as claimed: an exit with code 0 leaves the status as it was, and an
\* exit with any code handled while the status is error leaves the status
\* error and the error message as it was.
ExitNeverOverrides ==
  [][step'.op = "exit" /\ step'.handled
        => /\ step'.code = 0 => review'.status = review.status
           /\ review.status = "error" =>
                review'.status = "error" /\ review'.error = review.error]_vars

\* C19 as claimed: at most one pty of the session is alive, and at most one
\* alive pty has its data listener registered.
OneSubprocess ==
  /\ Cardinality(Alive) <= 1
  /\ Cardinality(Alive \cap cleanupFns) <= 1

\* C20 as claimed: when stopReview returns the status is idle and no pty of
\* the session is alive, and until the next startReview or reset no step
\* changes the status or the text or leaves a pty alive.
StopTearsDown ==
  [][stopped' => /\ review'.status = "idle"
                 /\ Alive' = {}
                 /\ stopped => review'.content = review.content]_vars

\* ------------------------------------------------- the decoder and reset()
\* the text fed since construction or the last reset()
FedSinceReset == SubSeq(stream, resetAt.fed + 1, fed)

\* the events returned since construction or the last reset()
EventsSinceReset == SubSeq(events, resetAt.events + 1, Len(events))

\* the text after the last line feed of t, all of t if it has none
AfterLastFeed(t) ==
  LET feeds == {i \in 1..Len(t) : t[i] = LF}
  IN IF feeds = {} THEN t ELSE SubSeq(t, Max(feeds) + 1, Len(t))

HasFeed(t) == \E i \in 1..Len(t) : t[i] = LF

\* C27: after every parse call the buffer holds no line feed and is the text
\* fed since construction or the last reset that follows the last line feed;
\* a chunk without a line feed returns no event and is appended whole to the
\* buffer.
ParserBufferInvariant ==
  /\ [](~HasFeed(buffer) /\ buffer = AfterLastFeed(FedSinceReset))
  /\ [][fed' > fed /\ ~HasFeed(SubSeq(stream, fed + 1, fed'))
          => events' = events /\ buffer' = buffer \o SubSeq(stream, fed + 1, fed')]_vars

\* after a reset a line was decoded and the text after it, which does not
\* end the stream fed so far at a terminator, is pending
PartialLineAfterReset ==
  /\ resetAt.fed > 0
  /\ Len(events) > resetAt.events
  /\ buffer # <<>>
  /\ Len(buffer) < fed - resetAt.fed

\* C29: reset() empties the buffer and returns no event, and the events
\* returned after it are those a new parser returns for the text fed after
\* it, whatever was fed before.
ResetForgets ==
  /\ [](EventsSinceReset = ParseChunk(<<>>, FedSinceReset).events)
  /\ [][resetAt' # resetAt => buffer' = <<>> /\ events' = events]_vars

\* reset() was called with a partial line pending and a line fed after it
\* was decoded
ResetDroppedPartialLine ==
  /\ resetAt.fed > 0
  /\ AfterLastFeed(SubSeq(stream, 1, resetAt.fed)) # <<>>
  /\ Len(events) > resetAt.events

\* ------------------------------------------------------ the handler's flag
\* C30: the flag changes only from false to true and only when the handler
\* takes a notifications/initialized notification, which always leaves it
\* true; every other frame, an initialize request, a ping and a frame with
\* that method and an id included, leaves it as it was.
OnlyInitializedNotificationSets ==
  [][/\ initialized' # initialized
          => /\ initialized'
             /\ last'.op = "message" /\ last'.handled
             /\ IsInitializedNotification(last'.raw)
     /\ (last'.op = "message" /\ last'.handled /\ IsInitializedNotification(last'.raw))
          => initialized']_vars

\* a frame with method notifications/initialized and an id was handled and
\* the flag is still false
InitializedWithIdIgnored ==
  /\ Handled
  /\ last.raw.kind = "object" /\ last.raw.jsonrpc = "2.0"
  /\ last.raw.hasId /\ last.raw.method = "notifications/initialized"
  /\ ~initialized

\* ------------------------------------------------------ the start request
\* C21: startReview without a repository path sets the status to error and
\* the error to 'No repository path' and nothing else: text, cost and model,
\* the parser's buffer, the ptys, the listeners and ptyIdRef stay as they are.
NoRepoStartOnlyErrors ==
  [][step'.op = "startReview" /\ step'.run = NoPty
        => /\ review' = [review EXCEPT !.status = "error", !.error = NoRepositoryPath]
           /\ buffer' = buffer
           /\ runs' = runs
           /\ cleanupFns' = cleanupFns
           /\ ptyIdRef' = ptyIdRef]_vars

\* startReview without a repository path was called with text and a cost
\* accumulated and a pty running, and they are still there
NoRepoStartKeptText ==
  /\ step.op = "startReview" /\ step.run = NoPty
  /\ review.status = "error" /\ review.error = NoRepositoryPath
  /\ review.content # <<>>
  /\ review.cost.has
  /\ Alive \cap cleanupFns # {}

\* C22 as claimed: a valid startReview leaves the state cleared and
\* initializing, the buffer empty, no listener registered and no pty of an
\* earlier call alive or being spawned; and every data or exit event handled
\* afterwards is of the latest call.
ValidStartTearsDown ==
  [][/\ step'.op = "startReview" /\ step'.run # NoPty
          => /\ review' = ReviewState(<<>>, "initializing", NoError, NoCost, NoModel)
             /\ buffer' = <<>>
             /\ cleanupFns' = {}
             /\ \A j \in Runs \ {step'.run} : runs'[j].phase \notin {"spawning", "alive"}
     /\ step'.op \in {"data", "exit"} /\ step'.handled
          => \A j \in Runs : j > step'.run => runs'[j].phase = "none"]_vars

\* ------------------------------------------------ the events of a session
\* the events the latest parse call returned
NewEvents == SubSeq(events', Len(events) + 1, Len(events'))

TypeIs(e, text) == IsText(Member(e, KeyType), text)

\* a record of type stream_event whose nested event is a content_block_delta
IsDeltaRecord(e) == TypeIs(e, TxtStreamEvent) /\ IsText(NestedType(e), TxtContentBlockDelta)

\* its delta.text
DeltaText(e) == Member(Member(Member(e, KeyEvent), KeyDelta), KeyText)

\* the text the events stand for: the text of each text delta and two line
\* feeds for each message end, in order
RECURSIVE TextOf(_)
TextOf(evs) ==
  IF evs = <<>> THEN <<>>
  ELSE LET e == Head(evs)
       IN (IF IsDeltaRecord(e) /\ Truthy(DeltaText(e)) THEN ToText(DeltaText(e)) ELSE <<>>)
            \o (IF TypeIs(e, TxtStreamEvent) /\ IsText(NestedType(e), TxtMessageStop)
                THEN <<LF, LF>> ELSE <<>>)
            \o TextOf(Tail(evs))

\* C23: the accumulated text is the text of the text deltas and two line
\* feeds per message end, in the order decoded, of the events since the last
\* start or reset; a chunk that holds only text deltas and message ends
\* leaves status, cost, model and error as they were.
TextAccumulation ==
  /\ [](review.content = TextOf(EventsSinceReset))
  /\ [][(/\ step'.op = "data"
          /\ \A i \in DOMAIN NewEvents :
               IsDeltaRecord(NewEvents[i]) \/ IsMessageEndEvent(NewEvents[i]))
          => /\ review'.status = review.status
             /\ review'.cost = review.cost
             /\ review'.model = review.model
             /\ review'.error = review.error]_vars

\* a run produced text, the review was started again and the new run's
\* events produced text
TextAfterRestart ==
  /\ resetAt.events > 0
  /\ TextOf(SubSeq(events, 1, resetAt.events)) # <<>>
  /\ Len(events) > resetAt.events
  /\ review.content # <<>>

\* C24: extractTextDelta returns text only for a stream_event record whose
\* nested event is a content_block_delta, and a chunk of assistant and result
\* records leaves the accumulated text as it was.
NoDuplicatedOutput ==
  [][step'.op = "data"
        => /\ \A i \in DOMAIN NewEvents :
                ExtractTextDelta(NewEvents[i]) # JLit("null") => IsDeltaRecord(NewEvents[i])
           /\ (\A i \in DOMAIN NewEvents :
                 TypeIs(NewEvents[i], TxtAssistant) \/ TypeIs(NewEvents[i], TxtResult))
                => review'.content = review.content]_vars

\* a text delta was followed by a whole message repeating its text, and the
\* text is there once
RepeatedTextShownOnce ==
  /\ resetAt.events = 0
  /\ Len(events) = 2
  /\ IsDeltaRecord(events[1])
  /\ TypeIs(events[2], TxtAssistant)
  /\ review.content = ToText(DeltaText(events[1]))

\* C25: a result record sets the status to complete and the cost to its
\* total_cost_usd when that is a number, and leaves the cost otherwise;
\* extractCost returns the number for such a record and nothing for a record
\* of another type, which leaves the cost as it was.
ResultRecordsCost ==
  [][step'.op = "data" /\ Len(NewEvents) = 1
        => LET e == NewEvents[1]
               cost == Member(e, KeyTotalCostUsd)
               numeric == cost.t = "number"
           IN /\ TypeIs(e, TxtResult)
                   => /\ review'.status = "complete"
                      /\ ExtractCost(e).has = numeric
                      /\ numeric => ExtractCost(e).n = cost.n /\ review'.cost = ExtractCost(e)
                      /\ ~numeric => review'.cost = review.cost
              /\ ~TypeIs(e, TxtResult)
                   => ~ExtractCost(e).has /\ review'.cost = review.cost]_vars

\* a result record set the cost and a later record of another type with a
\* total_cost_usd of its own left it
CostKeptByOtherRecord ==
  /\ resetAt.events = 0
  /\ Len(events) = 2
  /\ TypeIs(events[1], TxtResult)
  /\ Member(events[1], KeyTotalCostUsd).t = "number"
  /\ ~TypeIs(events[2], TxtResult)
  /\ Member(events[2], KeyTotalCostUsd).t = "number"
  /\ Member(events[2], KeyTotalCostUsd).n # Member(events[1], KeyTotalCostUsd).n
  /\ review.cost = [has |-> TRUE, n |-> Member(events[1], KeyTotalCostUsd).n]

\* the first key of Object.keys: the least integer-like key of the usage
\* mapping, its first key as written if it has none
FirstInKeysOrder(o) ==
  LET index == {i \in 1..Len(o) : IsIndexKey(o[i][1])}
  IN IF index = {} THEN o[1][1]
     ELSE o[CHOOSE i \in index : \A j \in index : ~IndexBelow(o[j][1], o[i][1])][1]

\* the first key of the usage mapping as the record has it
FirstAsWritten(o) == o[1][1]

\* the model of a record when key is the first key of its usage mapping
ModelOf(e, key) ==
  LET model == Member(e, KeyModel)
  IN IF ~TypeIs(e, TxtResult) THEN NoModel
     ELSE IF model.t = "string" THEN [has |-> TRUE, s |-> model.s]
     ELSE IF key = <<>> THEN NoModel
     ELSE [has |-> TRUE, s |-> key]

\* the usage mapping of a record, empty if it has none
UsageOf(e) ==
  LET usage == Member(e, KeyModelUsage)
  IN IF usage.t = "object" THEN usage.o ELSE <<>>

RecordOfLine(line) ==
  LET clean == Trim(StripAnsi(line))
  IN IF clean # <<>> /\ Head(clean) = "{" /\ JsonParse(clean).ok
     THEN <<JsonParse(clean).val>>
     ELSE <<>>

RecordTable == [line \in KnownLines |-> RecordOfLine(line)]

RECURSIVE RecordsOf(_)
RecordsOf(lines) ==
  IF lines = <<>> THEN <<>>
  ELSE (IF Head(lines) \in DOMAIN RecordTable THEN RecordTable[Head(lines)]
        ELSE RecordOfLine(Head(lines))) \o RecordsOf(Tail(lines))

\* C28: the events returned are the records of the complete lines fed, in
\* order, whatever lines that are no record stand between them, and a chunk
\* that returns no event leaves the state of the review as it was.
NoiseDropped ==
  /\ [](EventsSinceReset = RecordsOf(CompleteLines(SplitLines(FedSinceReset))))
  /\ [][step'.op = "data" /\ NewEvents = <<>> => review' = review]_vars

\* the text began with a line that is no record, all of it was fed, and the
\* record after that line was decoded
RecordAfterNoise ==
  /\ resetAt = NoReset
  /\ fed = Len(stream)
  /\ \E l \in NoiseLines : Len(stream) > Len(l) /\ SubSeq(stream, 1, Len(l)) = l
  /\ Len(events) = 1
  /\ review.status # "initializing"

\* ------------------------------------------------------- the init marker
\* C31: a chunk that holds one init marker and nothing else leaves the text,
\* the cost, the model and the error as they were, and makes the status
\* streaming when it was initializing and leaves it as it was otherwise.
InitMarkerOnlyFromInitializing ==
  [][(/\ step'.op = "data"
      /\ Len(NewEvents) = 1
      /\ IsInitEvent(NewEvents[1]))
      => /\ review'.content = review.content
         /\ review'.cost = review.cost
         /\ review'.model = review.model
         /\ review'.error = review.error
         /\ review'.status = IF review.status = "initializing" THEN "streaming"
                             ELSE review.status]_vars

\* ------------------------------------------------------ the displaced peer
\* connection c was let in and a later connection has been let in since
Displaced(c) == Accepted(c) /\ \E b \in Conns : b > c /\ Accepted(b)

\* C32: a frame that arrives from a displaced connection is not answered on
\* it (no send call of the step is delivered) and leaves the initialized
\* flag, which gates the requests of the active peer, as it was.
DisplacedPeerCutOff ==
  (last.op = "message" /\ Displaced(last.c))
    => /\ \A k \in 1..Len(last.out) : ~last.out[k].delivered
       /\ initialized = last.wasInitialized

\* --------------------------------------------------------- the close event
\* C33: the close event of a connection empties the active-peer slot when
\* that connection is the active peer and leaves the slot as it was
\* otherwise; a notification raised while the active peer is open is
\* delivered to it, also after a displaced connection's close was handled.
CloseClearsOwnSlot ==
  /\ last.op = "close"
       => currentClient = IF last.wasClient = last.c THEN NoClient ELSE last.wasClient
  /\ (last.op = "notify" /\ currentClient # NoClient /\ conn[currentClient].state = "OPEN")
       => /\ Len(last.out) = 1
          /\ TheSend.to = currentClient
          /\ TheSend.delivered

\* the first connection was displaced by the second, its close has been
\* handled, and a notification then reached the second
NotifiedAfterDisplacedClose ==
  /\ last.op = "notify"
  /\ Accepted(1)
  /\ conn[1].state = "CLOSED"
  /\ currentClient = 2
  /\ Len(last.out) = 1
  /\ TheSend.to = 2
  /\ TheSend.delivered

\* ------------------------------------------------- the rejected connection
\* C34: a connection attempt that is turned away leaves the token, the
\* active peer, the initialized flag and every other socket as they were, so
\* that a notification raised afterwards goes where it went before.
RejectionChangesNothing ==
  [][(/\ last'.op = "connection"
      /\ conn'[last'.c].header # authToken)
      => /\ UNCHANGED <<authToken, currentClient, initialized>>
         /\ \A d \in Conns : d # last'.c => conn'[d] = conn[d]
         /\ SendNotification(currentClient', conn', "selection_changed")
              = SendNotification(currentClient, conn, "selection_changed")]_vars

\* a second connection was turned away while the first was the open active
\* peer, and a notification then reached the first
PeerNotifiedAfterRejection ==
  /\ last.op = "notify"
  /\ Rejected(2)
  /\ currentClient = 1
  /\ Len(last.out) = 1
  /\ TheSend.to = 1
  /\ TheSend.delivered

\* ------------------------------------------------ the bridge switched off
\* the sockets a notification of the UI may reach: the active peer of the
\* recorded instance, none when no instance is recorded
CurrentPeers ==
  IF bridgeInstance = NoInstance THEN {}
  ELSE {instances[bridgeInstance].currentClient} \ {NoClient}

\* C35: a notification the UI raises is delivered to no socket but the active
\* peer of the recorded instance, and to none when the bridge is disabled.
NotifiedOnlyCurrentPeer ==
  call.op \in NotifyMethods => call.sent \subseteq CurrentPeers

\* ------------------------------------------------------ overlapping calls
Listening == {i \in Insts : instances[i].listening}
LockFilePorts == {p \in Ports : lockFiles[p].exists}

\* C36: when no call awaits a start, the listening servers are the recorded
\* instance alone, the lock files are its file alone, and every instance
\* started is the recorded one or disposed.
OneBridgeInstance ==
  NoCallPending
    => /\ Listening = IF bridgeInstance = NoInstance THEN {} ELSE {bridgeInstance}
       /\ LockFilePorts = {instances[i].port : i \in Listening}
       /\ \A i \in Started(instances) : i = bridgeInstance \/ instances[i].state = "disposed"

\* C37: when the latest call of setClaudeBridgeEnabled was with false and no
\* call awaits a start, the bridge is disabled: no instance is recorded,
\* nothing listens and no lock file is left.
LastRequestWins ==
  (call.op = "disable" /\ NoCallPending)
    => /\ ~GetClaudeBridgeStatus(bridgeInstance, instances).enabled
       /\ Listening = {}
       /\ LockFilePorts = {}

\* ------------------------------------------------- the classifier's markers
\* the markers that apply to a record
Markers(e) ==
  {m \in {"init", "error", "result", "delta", "end"} :
     CASE m = "init" -> IsInitEvent(e)
       [] m = "error" -> IsErrorEvent(e)
       [] m = "result" -> IsResultEvent(e)
       [] m = "delta" -> Truthy(ExtractTextDelta(e))
       [] OTHER -> IsMessageEndEvent(e)}

\* the update of the review state that belongs to marker m
MarkerUpdate(rv, e, m) ==
  CASE m = "init" -> [rv EXCEPT !.status = "streaming"]
    [] m = "error" -> [rv EXCEPT !.status = "error", !.error = EventError(e)]
    [] m = "result" -> [rv EXCEPT !.cost = IF ExtractCost(e).has THEN ExtractCost(e) ELSE @,
                                  !.model = IF ExtractModel(e).has THEN ExtractModel(e) ELSE @,
                                  !.status = "complete"]
    [] m = "delta" -> [rv EXCEPT !.content = @ \o ToText(DeltaText(e))]
    [] OTHER -> [rv EXCEPT !.content = @ \o <<LF, LF>>]

\* C38: at most one of the init, error, result, text-delta and message-end
\* markers applies to a decoded record, and handling the record makes the one
\* update that belongs to its marker, or none when it has no marker.
MarkersExclusive ==
  /\ [](\A i \in DOMAIN events : Cardinality(Markers(events[i])) <= 1)
  /\ [][(step'.op = "data" /\ Len(events') = 1)
          => LET e == events'[1]
             IN review' = IF Markers(e) = {} THEN review
                          ELSE MarkerUpdate(review, e, CHOOSE m \in Markers(e) : TRUE)]_vars

\* a record of type result that also carries the subtype error and a nested
\* message_stop event was handled as a result and as nothing else
MixedRecordOneUpdate ==
  /\ step.op = "data"
  /\ Len(events) = 1
  /\ TypeIs(events[1], TxtResult)
  /\ IsText(Member(events[1], KeySubtype), TxtError)
  /\ IsText(NestedType(events[1]), TxtMessageStop)
  /\ review.status = "complete"
  /\ review.error = NoError
  /\ review.content = <<>>

\* ------------------------------------------------- the terminal's output
\* C39: what terminal.write and onData were given, followed by what the
\* buffer holds, is the data received, in order; at most one flush timer is
\* pending, and one is pending exactly while the flag is set; and every
\* character received is written in the end unless the terminal is unmounted.
CoalescingExact ==
  /\ [](/\ written \o writeBuffer = received
        /\ passed = written
        /\ flushTimers <= 1
        /\ isFlushPending <=> flushTimers = 1)
  /\ \A n \in 1..MaxOutput :
       (Len(received) >= n) ~> (Len(written) >= n \/ terminalState = "disposed")

\* two chunks were written to the terminal by one timer, and the exit timer
\* had already written an earlier chunk and called onExit
ChunksCoalescedAfterExit ==
  /\ xstep.op = "flush"
  /\ xstep.wrote = <<"a", "a">>
  /\ exitCalls = 1
  /\ written = <<"a", "a", "a">>
  /\ terminalState = "ready"

\* C40: onExit is called only after the exit event of the pty, once for it,
\* and when it is called the buffer is empty and everything received until
\* then has been given to terminal.write and to onData.
ExitAfterOutput ==
  /\ [](exitCalls + exitTimers = IF ptyExited THEN 1 ELSE 0)
  /\ [][exitCalls' # exitCalls
          => /\ ptyExited
             /\ exitCalls' = exitCalls + 1
             /\ writeBuffer' = <<>>
             /\ written' = received
             /\ passed' = received]_vars

\* the exit timer fired while a flush timer was pending, wrote the two
\* chunks the buffer held and called onExit
ExitTimerFlushed ==
  /\ xstep.op = "exitTimer"
  /\ xstep.wrote = <<"a", "b", "c">>
  /\ isFlushPending
  /\ exitCalls = 1
  /\ writeBuffer = <<>>
====
